---- MODULE Spec2Model ----
(***************************************************************************)
(* ICAO VFR trainer backend: the validate -> advance -> respond pipeline   *)
(* of backend/stt_handler.py, over the scenario registry of                *)
(* backend/state_machine.py.                                               *)
(*                                                                         *)
(* Python strings are TLA+ strings; a character is a string of length 1.   *)
(* A slot bag (Mapping[str, str]) is a function whose DOMAIN is the set of *)
(* keys present.  Python's None for "no state" is the record None.         *)
(* A float score is kept in hundredths (1.0 is 100, 0.67 is 67).           *)
(*                                                                         *)
(* After the backend come the HTTP routes of backend/app.py, one           *)
(* normalize_icao call followed pass by pass, one parse_callsign call,     *)
(* concurrent handle_stt invocations, and the node editor of               *)
(* OpenVisionStudio: NodeCache, GraphModel and GraphExecutor.              *)
(***************************************************************************)
EXTENDS Integers, Sequences, FiniteSets, TLC

VARIABLES
    state,      \* dialog state the client sends with its next request
    scenario,   \* scenario id the client sends with every request
    request,    \* the request being answered, NoRequest between requests
    result,     \* what handle_stt returned (or raised) for it
    loop,       \* the frame of one normalize_icao call: its locals, and what it returned
    parsing,    \* one parse_callsign call: the tokens it was given, and what it returned
    caller_slots,   \* a mapping a caller passes as current_slots to several handle_stt calls
    environ,    \* the environment of the server process
    frames,     \* the frames of the handle_stt invocations under way
    graph,      \* the GraphModel of the node canvas: nodes and connections
    cache,      \* NodeCache._entries of the one GraphExecutor
    execution,  \* the latest GraphExecutor.execute call on the graph as it is now
    calls,      \* the put, invalidate and clear calls a NodeCache has received
    got         \* the latest NodeCache.get call and what it returned

\* the trainer's client session and the server answering it
session == <<state, scenario, request, result>>

\* one call of the normalizer, followed through its rewrite loop, and one call of
\* the callsign parser
normalizer == <<loop, parsing>>

\* the server's workers inside handle_stt
workers == <<caller_slots, environ, frames>>

\* the node editor: its graph, its executor's cache, and what the calls returned
engine == <<graph, cache, execution, calls, got>>

vars == <<session, normalizer, workers, engine>>

(***************************************************************************)
(* Python str primitives                                                   *)
(***************************************************************************)
Char(s, i) == SubSeq(s, i, i)

DigitChars == {"0", "1", "2", "3", "4", "5", "6", "7", "8", "9"}

UpperChars == "ABCDEFGHIJKLMNOPQRSTUVWXYZ"

LowerChars == "abcdefghijklmnopqrstuvwxyz"

CharSet(s) == {Char(s, i) : i \in 1..Len(s)}

SpaceChars == {" ", "\t", "\n"}

IsAlphaChar(c) == c \in CharSet(UpperChars) \cup CharSet(LowerChars)

\* str.isdigit(): non-empty and every character a digit
IsDigit(s) == Len(s) > 0 /\ \A i \in 1..Len(s) : Char(s, i) \in DigitChars

\* str.isalnum(): non-empty and every character a letter or a digit
IsAlnum(s) == Len(s) > 0 /\ \A i \in 1..Len(s) : IsAlphaChar(Char(s, i)) \/ Char(s, i) \in DigitChars

LowerChar(c) ==
    IF c \in CharSet(UpperChars)
    THEN Char(LowerChars, CHOOSE i \in 1..Len(UpperChars) : Char(UpperChars, i) = c)
    ELSE c

RECURSIVE Lower(_)
\* str.lower(), one half of the string after the other
Lower(s) ==
    IF Len(s) <= 1 THEN LowerChar(s)
    ELSE Lower(SubSeq(s, 1, Len(s) \div 2)) \o Lower(SubSeq(s, Len(s) \div 2 + 1, Len(s)))

RECURSIVE Strip(_)
\* str.strip(): drop leading and trailing whitespace
Strip(s) ==
    IF s = "" THEN ""
    ELSE IF Char(s, 1) \in SpaceChars THEN Strip(SubSeq(s, 2, Len(s)))
    ELSE IF Char(s, Len(s)) \in SpaceChars THEN Strip(SubSeq(s, 1, Len(s) - 1))
    ELSE s

RECURSIVE Filter(_, _)
\* "".join(ch for ch in s if ch in keep)
Filter(s, keep) ==
    IF Len(s) <= 1 THEN (IF s \in keep THEN s ELSE "")
    ELSE Filter(SubSeq(s, 1, Len(s) \div 2), keep)
             \o Filter(SubSeq(s, Len(s) \div 2 + 1, Len(s)), keep)

DigitValue(c) == CHOOSE d \in 0..9 : Char("0123456789", d + 1) = c

RECURSIVE ToInt(_)
\* int(s) for a digit string
ToInt(s) == IF s = "" THEN 0 ELSE 10 * ToInt(SubSeq(s, 1, Len(s) - 1)) + DigitValue(Char(s, Len(s)))

\* index of the first occurrence of character c in s, 0 when there is none
Find(s, c) ==
    IF \E i \in 1..Len(s) : Char(s, i) = c
    THEN CHOOSE i \in 1..Len(s) : Char(s, i) = c /\ \A j \in 1..(i - 1) : Char(s, j) # c
    ELSE 0

(***************************************************************************)
(* backend/state_machine.py                                                *)
(***************************************************************************)
None == [none |-> TRUE]

\* faulty variant of _state: a state without successors loops to itself
_state_self_loop(name, required_slots, optional_slots, next_states, atc_templates, readback_required, readback_slots) ==
    [name |-> name,
     required_slots |-> required_slots,
     optional_slots |-> optional_slots,
     next_states |-> IF next_states = <<>> THEN <<name>> ELSE next_states,
     atc_templates |-> atc_templates,
     readback_required |-> readback_required,
     readback_slots |-> readback_slots]

_state(name, required_slots, optional_slots, next_states, atc_templates, readback_required, readback_slots) ==
    [name |-> name,
     required_slots |-> required_slots,
     optional_slots |-> optional_slots,
     next_states |-> next_states,
     atc_templates |-> atc_templates,
     readback_required |-> readback_required,
     readback_slots |-> readback_slots]

Graz ==
    [initial_call |->
        _state("initial_call", <<"callsign">>, <<>>, <<"taxi_request">>,
               <<"{callsign}, Graz Tower">>, FALSE, <<>>),
     taxi_request |->
        _state("taxi_request", <<"callsign", "position">>, <<"qnh", "taxiway">>,
               <<"taxi_clearance">>,
               <<"Taxi to holding point runway {runway}, via {taxiway}, QNH {qnh}">>,
               FALSE, <<>>),
     taxi_clearance |->
        _state("taxi_clearance", <<"callsign", "runway", "qnh">>, <<"taxiway">>,
               <<"intermediate_hold">>,
               <<"Hold at intermediate stop {holding_point}, give way to {traffic}">>,
               TRUE, <<"runway", "qnh", "holding_point">>),
     intermediate_hold |->
        _state("intermediate_hold", <<"callsign", "holding_point">>, <<>>,
               <<"taxi_continue">>,
               <<"Continue taxi to holding point {holding_point}">>, FALSE, <<>>),
     taxi_continue |->
        _state("taxi_continue", <<"callsign", "holding_point">>, <<"taxiway">>,
               <<"departure_instructions">>,
               <<"Leave the control zone via VFR sector {sector}, {altitude} or below, "
                 \o "right turn after departure, report ready for departure">>,
               FALSE, <<>>),
     departure_instructions |->
        _state("departure_instructions", <<"callsign", "sector", "altitude">>, <<"runway">>,
               <<"lineup_wait">>,
               <<"Line up runway {runway} and wait">>,
               TRUE, <<"sector", "altitude", "runway">>),
     lineup_wait |->
        _state("lineup_wait", <<"callsign", "runway">>, <<>>, <<"takeoff_clearance">>,
               <<"Wind {wind}, runway {runway}, cleared for takeoff">>,
               TRUE, <<"runway", "wind">>),
     takeoff_clearance |->
        _state("takeoff_clearance", <<"callsign", "runway", "wind">>, <<>>,
               <<"airborne_time">>,
               <<"Airborne time {time}, report leaving sector {sector}">>,
               TRUE, <<"runway", "wind">>),
     airborne_time |->
        _state("airborne_time", <<"callsign", "time", "sector">>, <<"altitude">>,
               <<"qnh_update">>,
               <<"New QNH {qnh}">>, FALSE, <<>>),
     qnh_update |->
        _state("qnh_update", <<"callsign", "qnh">>, <<>>, <<"leave_sector">>,
               <<"Report leaving sector {sector}">>,
               TRUE, <<"qnh">>),
     leave_sector |->
        _state("leave_sector", <<"callsign", "sector", "altitude">>, <<"time">>,
               <<"frequency_change">>,
               <<"Approved to leave the frequency">>, FALSE, <<>>),
     frequency_change |->
        _state("frequency_change", <<"callsign">>, <<>>, <<"end">>,
               <<"Frequency change approved">>, FALSE, <<>>),
     end |->
        _state("end", <<>>, <<>>, <<>>, <<"End of scenario">>, FALSE, <<>>)]

SCENARIOS == [graz_vfr_sector_e |-> Graz]

get_state(state_name, scen) ==
    LET lookup(registry) ==
            IF scen \in DOMAIN registry /\ state_name \in DOMAIN registry[scen]
            THEN registry[scen][state_name]
            ELSE None
    IN  lookup(SCENARIOS)

\* faulty variant of advance_state: does not read validation.ok
advance_state_ignores_ok(current_state, validation, scen) ==
    LET st == get_state(current_state, scen) IN
    IF st = None THEN current_state
    ELSE IF st.next_states # <<>> THEN st.next_states[1]
    ELSE current_state

\* faulty variant of advance_state: a passed terminal state restarts the dialog
advance_state_restarts(current_state, validation, scen) ==
    LET st == get_state(current_state, scen) IN
    IF st = None THEN current_state
    ELSE IF validation.ok
         THEN IF st.next_states # <<>> THEN st.next_states[1] ELSE "initial_call"
    ELSE current_state

advance_state(current_state, validation, scen) ==
    LET next(st) ==
            IF st = None THEN current_state
            ELSE IF validation.ok /\ st.next_states # <<>> THEN st.next_states[1]
            ELSE current_state
    IN  next(get_state(current_state, scen))

(***************************************************************************)
(* backend/validator.py                                                    *)
(***************************************************************************)
_normalize_text(value) == Lower(Strip(value))

_normalize_runway(value) ==
    LET runway(raw) ==
            LET digits == Filter(raw, DigitChars)
                suffix == Filter(raw, CharSet(LowerChars) \cup CharSet(UpperChars))
            IN  IF raw = "" THEN ""
                ELSE IF digits # "" THEN digits \o suffix
                ELSE raw
    IN  runway(_normalize_text(value))

\* SlotRule.name of every rule, in order (the descriptions are never read)
STATE_EXPECTATIONS ==
    [clearance |-> <<"callsign", "destination", "runway", "qnh">>,
     taxi |-> <<"callsign", "runway">>,
     takeoff |-> <<"callsign", "runway">>,
     initial_call |-> <<"callsign">>,
     taxi_request |-> <<"callsign", "position">>,
     taxi_clearance |-> <<"callsign", "runway", "qnh">>,
     intermediate_hold |-> <<"callsign", "holding_point">>,
     taxi_continue |-> <<"callsign", "holding_point">>,
     departure_instructions |-> <<"callsign", "sector", "altitude">>,
     lineup_wait |-> <<"callsign", "runway">>,
     takeoff_clearance |-> <<"callsign", "runway", "wind">>,
     airborne_time |-> <<"callsign", "time", "sector">>,
     qnh_update |-> <<"callsign", "qnh">>,
     leave_sector |-> <<"callsign", "sector", "altitude">>,
     frequency_change |-> <<"callsign">>]

\* faulty variant of _expected_rules_for_state: a state without a table entry is
\* given the rules of "initial_call"
_expected_rules_defaulted(st, scen) ==
    LET state_def == get_state(st, scen) IN
    IF state_def # None THEN state_def.required_slots
    ELSE IF st \in DOMAIN STATE_EXPECTATIONS THEN STATE_EXPECTATIONS[st]
    ELSE STATE_EXPECTATIONS["initial_call"]

_expected_rules_for_state(st, scen) ==
    LET rules(state_def) ==
            IF state_def # None THEN state_def.required_slots
            ELSE IF st \in DOMAIN STATE_EXPECTATIONS THEN STATE_EXPECTATIONS[st]
            ELSE <<>>
    IN  rules(get_state(st, scen))

_readback_expectations(st, scen) ==
    LET slots(state_def) ==
            IF state_def = None \/ ~state_def.readback_required THEN <<>>
            ELSE state_def.readback_slots
    IN  slots(get_state(st, scen))

_runway_matches(expected, actual) ==
    LET digits_match(expected_norm, actual_norm, expected_digits, actual_digits) ==
            IF expected_digits = "" \/ actual_digits = "" THEN expected_norm = actual_norm
            ELSE expected_digits = actual_digits
        matches(expected_norm, actual_norm) ==
            IF expected_norm = "" \/ actual_norm = "" THEN FALSE
            ELSE digits_match(expected_norm, actual_norm,
                              Filter(expected_norm, DigitChars), Filter(actual_norm, DigitChars))
    IN  matches(_normalize_runway(expected), _normalize_runway(actual))

\* a range check that accepts only [960, 1060]
_qnh_valid_narrow(value) ==
    LET valid(text) ==
            IF text = "" THEN FALSE
            ELSE IF ~IsDigit(text) THEN FALSE
            ELSE 960 <= ToInt(text) /\ ToInt(text) <= 1060
    IN  valid(_normalize_text(value))

_qnh_valid(value) ==
    LET valid(text) ==
            IF text = "" THEN FALSE
            ELSE IF ~IsDigit(text) THEN FALSE
            ELSE 900 <= ToInt(text) /\ ToInt(text) <= 1100
    IN  valid(_normalize_text(value))

_wind_valid(value) ==
    LET valid(text) ==
            LET cut == Find(text, "/")
                direction == SubSeq(text, 1, cut - 1)
                speed == SubSeq(text, cut + 1, Len(text))
            IN  IF text = "" THEN FALSE
                ELSE IF cut > 0
                     THEN IF ~(IsDigit(direction) /\ IsDigit(speed)) THEN FALSE
                          ELSE Len(direction) \in {2, 3}
                ELSE IsDigit(text)
    IN  valid(_normalize_text(value))

_time_valid(value) ==
    LET valid(text) ==
            IF text = "" \/ ~IsDigit(text) THEN FALSE
            ELSE 0 <= ToInt(text) /\ ToInt(text) <= 59
    IN  valid(_normalize_text(value))

_sector_valid(value) ==
    LET valid(text) == text # "" /\ IsAlnum(text) IN valid(_normalize_text(value))

\* slots.get(key) is None, or blank after _normalize_text
IsBlank(slots, key) == key \notin DOMAIN slots \/ _normalize_text(slots[key]) = ""

\* one iteration of validate's first loop: the verdict lists after rule `name`
CheckRule(name, slots, acc) ==
    LET value == slots[name]
        expected_runway == IF "expected_runway" \in DOMAIN slots THEN slots["expected_runway"] ELSE value
        flag(reason) == [acc EXCEPT !.wrong = Append(@, name), !.reasons = Append(@, reason)]
    IN  IF IsBlank(slots, name)
        THEN [acc EXCEPT !.missing = Append(@, name), !.reasons = Append(@, "missing: " \o name)]
        ELSE IF name = "runway"
        THEN IF ~_runway_matches(expected_runway, value)
             THEN flag("runway mismatch: expected " \o expected_runway \o ", got " \o value)
             ELSE acc
        ELSE IF name = "qnh"
        THEN IF ~_qnh_valid(value) THEN flag("invalid qnh: " \o value) ELSE acc
        ELSE IF name = "wind"
        THEN IF ~_wind_valid(value) THEN flag("invalid wind: " \o value) ELSE acc
        ELSE IF name = "time"
        THEN IF ~_time_valid(value) THEN flag("invalid time: " \o value) ELSE acc
        ELSE IF name = "sector"
        THEN IF ~_sector_valid(value) THEN flag("invalid sector: " \o value) ELSE acc
        ELSE acc

\* faulty variant of CheckReadback: no test for a blank readback value
CheckReadbackNoBlankTest(slot_name, slots, acc) ==
    LET key == "expected_" \o slot_name
        actual == IF slot_name \in DOMAIN slots THEN slots[slot_name] ELSE ""
    IN  IF key \notin DOMAIN slots THEN acc
        ELSE IF _normalize_text(slots[key]) # _normalize_text(actual)
        THEN [acc EXCEPT !.wrong = Append(@, slot_name),
                         !.reasons = Append(@, "readback mismatch: expected " \o slots[key]
                                                 \o ", got " \o actual)]
        ELSE acc

\* faulty variant of CheckReadback: compares the values as given
CheckReadbackVerbatim(slot_name, slots, acc) ==
    LET key == "expected_" \o slot_name IN
    IF key \notin DOMAIN slots THEN acc
    ELSE IF IsBlank(slots, slot_name)
    THEN [acc EXCEPT !.missing = Append(@, slot_name),
                     !.reasons = Append(@, "readback missing: " \o slot_name)]
    ELSE IF slots[key] # slots[slot_name]
    THEN [acc EXCEPT !.wrong = Append(@, slot_name),
                     !.reasons = Append(@, "readback mismatch: expected " \o slots[key]
                                             \o ", got " \o slots[slot_name])]
    ELSE acc

\* one iteration of validate's readback loop
CheckReadback(slot_name, slots, acc) ==
    LET key == "expected_" \o slot_name IN
    IF key \notin DOMAIN slots THEN acc
    ELSE IF IsBlank(slots, slot_name)
    THEN [acc EXCEPT !.missing = Append(@, slot_name),
                     !.reasons = Append(@, "readback missing: " \o slot_name)]
    ELSE IF _normalize_text(slots[key]) # _normalize_text(slots[slot_name])
    THEN [acc EXCEPT !.wrong = Append(@, slot_name),
                     !.reasons = Append(@, "readback mismatch: expected " \o slots[key]
                                             \o ", got " \o slots[slot_name])]
    ELSE acc

RECURSIVE RuleLoopRepeating(_, _, _)
\* faulty variant of RuleLoop: every rule is checked twice
RuleLoopRepeating(rules, slots, acc) ==
    IF rules = <<>> THEN acc
    ELSE RuleLoopRepeating(Tail(rules), slots,
                           CheckRule(Head(rules), slots, CheckRule(Head(rules), slots, acc)))

RECURSIVE RuleLoop(_, _, _)
RuleLoop(rules, slots, acc) ==
    IF rules = <<>> THEN acc
    ELSE RuleLoop(Tail(rules), slots, CheckRule(Head(rules), slots, acc))

\* faulty variant of ReadbackLoop: only the first readback slot is checked
ReadbackLoopFirstOnly(names, slots, acc) ==
    IF names = <<>> THEN acc ELSE CheckReadback(Head(names), slots, acc)

RECURSIVE ReadbackLoop(_, _, _)
ReadbackLoop(names, slots, acc) ==
    IF names = <<>> THEN acc
    ELSE ReadbackLoop(Tail(names), slots, CheckReadback(Head(names), slots, acc))

Max(a, b) == IF a >= b THEN a ELSE b

\* round(correct / total, 2) in hundredths: to nearest, a tie to the even hundredth
\* (no tie arises for the rule counts of the tables, which are at most 4)
Round2(correct, total) ==
    LET q == (100 * correct) \div total
        r == (100 * correct) % total
    IN  IF 2 * r < total THEN q
        ELSE IF 2 * r > total THEN q + 1
        ELSE IF q % 2 = 0 THEN q ELSE q + 1

\* faulty variant of Score: correct is not clamped at 0
ScoreUnclamped(total, missing, wrong) ==
    LET correct == total - Len(missing) - Len(wrong) IN
    IF total # 0 THEN Round2(correct, total) ELSE 100

Score(total, missing, wrong) ==
    LET correct == Max(total - Len(missing) - Len(wrong), 0) IN
    IF total # 0 THEN Round2(correct, total) ELSE 100

\* faulty variant of Ok: reads the missing list only
OkIgnoresWrong(missing, wrong) == missing = <<>>

Ok(missing, wrong) == missing = <<>> /\ wrong = <<>>

validate(st, slots, normalized_text, scen) ==
    LET verdict(expected_rules, checked) ==
            LET r1 == IF expected_rules = <<>>
                      THEN Append(checked.reasons, "no expectations configured for state")
                      ELSE checked.reasons
            IN  [ok |-> Ok(checked.missing, checked.wrong),
                 missing |-> checked.missing,
                 wrong |-> checked.wrong,
                 score |-> Score(Len(expected_rules), checked.missing, checked.wrong),
                 reasons |-> IF normalized_text # ""
                             THEN Append(r1, "checked text: " \o normalized_text)
                             ELSE r1]
        readback(expected_rules, first) ==
            verdict(expected_rules,
                    ReadbackLoop(_readback_expectations(st, scen), slots, first))
        rules(expected_rules) ==
            readback(expected_rules,
                     RuleLoop(expected_rules, slots,
                              [missing |-> <<>>, wrong |-> <<>>, reasons |-> <<>>]))
    IN  rules(_expected_rules_for_state(st, scen))

(***************************************************************************)
(* backend/llm_renderer.py                                                 *)
(*                                                                         *)
(* The environment of one call is env = [renderer, endpoint, reply]:       *)
(* os.getenv("LLM_RENDERER", ""), os.getenv("LLM_ENDPOINT") ("" when       *)
(* unset) and what the HTTP POST does.  reply.kind is                      *)
(*   "exception"  urlopen/read/decode raised (refused, timeout, HTTP 5xx), *)
(*   "not_json"   the body is not JSON,                                    *)
(*   "object"     the body is a JSON object; reply.has_text says whether   *)
(*                it has a "text" member, reply.text is that member,       *)
(*   "array", "string", "number", "null"  the body is JSON of that shape.  *)
(* A Python call returns [tag |-> "return", value |-> v] or raises:        *)
(* [tag |-> "raise", exc |-> name].  An Optional[str] is <<>> for None and  *)
(* <<s>> for the string s.                                                 *)
(***************************************************************************)
NoText == <<>>

Return(v) == [tag |-> "return", value |-> v]

Raise(exc) == [tag |-> "raise", exc |-> exc]

\* urllib.request.Request(url): ValueError("unknown url type") without a scheme
HasScheme(url) == \E i \in 2..Len(url) : Char(url, i) = ":"

render_with_llm(env) ==
    IF env.endpoint = "" THEN Return(NoText)
    ELSE IF ~HasScheme(env.endpoint) THEN Raise("ValueError")
    ELSE IF env.reply.kind = "exception" THEN Return(NoText)
    ELSE IF env.reply.kind = "not_json" THEN Return(NoText)
    ELSE IF env.reply.kind = "object"
         THEN IF env.reply.has_text THEN Return(<<env.reply.text>>) ELSE Return(NoText)
    ELSE Raise("AttributeError")

(***************************************************************************)
(* backend/atc_response.py                                                 *)
(***************************************************************************)
_MISSING_PROMPTS ==
    [callsign |-> "say again callsign",
     position |-> "report position",
     runway |-> "confirm runway",
     qnh |-> "confirm QNH",
     holding_point |-> "report holding point",
     sector |-> "report sector",
     altitude |-> "report altitude",
     wind |-> "report wind",
     time |-> "report time"]

ATCResponse(text, reason, renderer) == [text |-> text, reason |-> reason, renderer |-> renderer]

RECURSIVE Format(_, _)
\* template.format(**slots): <<the rendered text>>, or <<>> for KeyError
Format(template, slots) ==
    LET open == Find(template, "{")
        rest == SubSeq(template, open + 1, Len(template))
        close == Find(rest, "}")
        key == SubSeq(rest, 1, close - 1)
        tail == Format(SubSeq(rest, close + 1, Len(rest)), slots)
    IN  IF open = 0 THEN <<template>>
        ELSE IF key \notin DOMAIN slots \/ tail = <<>> THEN <<>>
        ELSE <<SubSeq(template, 1, open - 1) \o slots[key] \o tail[1]>>

RECURSIVE _render_template_partial(_, _)
\* variant of _render_template that replaces the placeholders whose slots are
\* present and leaves the others literal
_render_template_partial(template, slots) ==
    LET open == Find(template, "{")
        rest == SubSeq(template, open + 1, Len(template))
        close == Find(rest, "}")
        key == SubSeq(rest, 1, close - 1)
        tail == _render_template_partial(SubSeq(rest, close + 1, Len(rest)), slots)
    IN  IF open = 0 THEN template
        ELSE SubSeq(template, 1, open - 1)
                 \o (IF key \in DOMAIN slots THEN slots[key] ELSE "{" \o key \o "}")
                 \o tail

_render_template(template, slots) ==
    LET text(rendered) == IF rendered = <<>> THEN template ELSE rendered[1] IN
    text(Format(template, slots))

RendererEnabled(env) == Lower(env.renderer) \in {"1", "true", "yes"}

\* `if llm_text:` holds for a non-empty string
Truthy(v) == v # NoText /\ v[1] # ""

\* faulty variant of build_atc_response: a wrong slot is answered before a
\* missing one
build_atc_response_wrong_first(st, scen, slots, validation, env) ==
    LET missing == validation.missing
        wrong == validation.wrong
        deterministic(state_def) ==
            IF state_def # None /\ state_def.atc_templates # <<>>
            THEN ATCResponse(_render_template(state_def.atc_templates[1], slots),
                             "template", "deterministic")
            ELSE ATCResponse("roger", "default", "deterministic")
        rendered(response, llm) ==
            IF llm.tag = "raise" THEN llm
            ELSE IF Truthy(llm.value)
            THEN Return(ATCResponse(llm.value[1], response.reason, "llm"))
            ELSE Return(response)
        answer(response) ==
            IF RendererEnabled(env) THEN rendered(response, render_with_llm(env))
            ELSE Return(response)
    IN  IF wrong # <<>>
        THEN Return(ATCResponse("confirm " \o wrong[1], "wrong_slot", "deterministic"))
        ELSE IF missing # <<>>
        THEN Return(ATCResponse(
                 IF missing[1] \in DOMAIN _MISSING_PROMPTS
                 THEN _MISSING_PROMPTS[missing[1]] ELSE "report " \o missing[1],
                 "missing_slot", "deterministic"))
        ELSE answer(deterministic(get_state(st, scen)))

build_atc_response(st, scen, slots, validation, env) ==
    LET missing == validation.missing
        wrong == validation.wrong
        deterministic(state_def) ==
            IF state_def # None /\ state_def.atc_templates # <<>>
            THEN ATCResponse(_render_template(state_def.atc_templates[1], slots),
                             "template", "deterministic")
            ELSE ATCResponse("roger", "default", "deterministic")
        rendered(response, llm) ==
            IF llm.tag = "raise" THEN llm
            ELSE IF Truthy(llm.value)
            THEN Return(ATCResponse(llm.value[1], response.reason, "llm"))
            ELSE Return(response)
        answer(response) ==
            IF RendererEnabled(env) THEN rendered(response, render_with_llm(env))
            ELSE Return(response)
    IN  IF missing # <<>>
        THEN Return(ATCResponse(
                 IF missing[1] \in DOMAIN _MISSING_PROMPTS
                 THEN _MISSING_PROMPTS[missing[1]] ELSE "report " \o missing[1],
                 "missing_slot", "deterministic"))
        ELSE IF wrong # <<>>
        THEN Return(ATCResponse("confirm " \o wrong[1], "wrong_slot", "deterministic"))
        ELSE answer(deterministic(get_state(st, scen)))

(***************************************************************************)
(* backend/normalizer.py                                                   *)
(*                                                                         *)
(* A float confidence is the exact fraction <<numerator, denominator>> in  *)
(* lowest terms: 1.0 is <<1, 1>>, 0.75 is <<3, 4>>.                        *)
(***************************************************************************)
NATO_WORDS ==
    [alpha |-> "A", bravo |-> "B", charlie |-> "C", delta |-> "D", echo |-> "E",
     foxtrot |-> "F", golf |-> "G", hotel |-> "H", india |-> "I", juliet |-> "J",
     kilo |-> "K", lima |-> "L", mike |-> "M", november |-> "N", oscar |-> "O",
     papa |-> "P", quebec |-> "Q", romeo |-> "R", sierra |-> "S", tango |-> "T",
     uniform |-> "U", victor |-> "V", whiskey |-> "W", xray |-> "X", yankee |-> "Y",
     zulu |-> "Z"]

NUMBER_WORDS ==
    [zero |-> "0", one |-> "1", two |-> "2", three |-> "3", tree |-> "3", four |-> "4",
     for |-> "4", five |-> "5", fife |-> "5", six |-> "6", seven |-> "7", eight |-> "8",
     nine |-> "9", niner |-> "9"]

CONTEXT_NUMBERS == [to |-> "two", too |-> "two", for |-> "four"]

Token(raw, normalized, kind, confidence) ==
    [raw |-> raw, normalized |-> normalized, kind |-> kind, confidence |-> confidence]

RECURSIVE Gcd(_, _)
Gcd(a, b) == IF b = 0 THEN a ELSE Gcd(b, a % b)

\* the float n / d
Frac(n, d) == <<n \div Gcd(n, d), d \div Gcd(n, d)>>

FracLess(x, y) == x[1] * y[2] < y[1] * x[2]

FracMin(x, y) == IF FracLess(y, x) THEN y ELSE x

TokenChars == CharSet(LowerChars) \cup DigitChars

\* TOKEN_RE.findall(text) for lowercased text: the maximal runs of [a-z0-9], in order
FindAll(text) ==
    LET in_run(i) == i >= 1 /\ i <= Len(text) /\ Char(text, i) \in TokenChars
        starts == {i \in 1..Len(text) : in_run(i) /\ ~in_run(i - 1)}
        ends == {i \in 1..Len(text) : in_run(i) /\ ~in_run(i + 1)}
        nth(S, k) == CHOOSE x \in S : Cardinality({y \in S : y < x}) = k - 1
    IN  [k \in 1..Cardinality(starts) |-> SubSeq(text, nth(starts, k), nth(ends, k))]

_tokenize(text) == FindAll(Lower(text))

\* difflib.SequenceMatcher.find_longest_match over all of a and b (no junk):
\* <<i, j, k>> with a[i..i+k-1] = b[j..j+k-1], k largest, then i least, then j least
find_longest_match(a, b) ==
    LET better(t, u) == \/ t[3] > u[3]
                        \/ t[3] = u[3] /\ t[1] < u[1]
                        \/ t[3] = u[3] /\ t[1] = u[1] /\ t[2] <= u[2]
        longest(blocks) == IF blocks = {} THEN <<1, 1, 0>>
                           ELSE CHOOSE t \in blocks : \A u \in blocks : better(t, u)
    IN  longest({t \in (1..Len(a)) \X (1..Len(b)) \X (1..Len(a)) :
                    /\ t[1] + t[3] - 1 <= Len(a)
                    /\ t[2] + t[3] - 1 <= Len(b)
                    /\ SubSeq(a, t[1], t[1] + t[3] - 1) = SubSeq(b, t[2], t[2] + t[3] - 1)})

RECURSIVE Matches(_, _)
\* sum of the sizes of SequenceMatcher(a=a, b=b).get_matching_blocks()
Matches(a, b) ==
    LET around(m) ==
            IF m[3] = 0 THEN 0
            ELSE m[3] + Matches(SubSeq(a, 1, m[1] - 1), SubSeq(b, 1, m[2] - 1))
                      + Matches(SubSeq(a, m[1] + m[3], Len(a)), SubSeq(b, m[2] + m[3], Len(b)))
    IN  IF a = "" \/ b = "" THEN 0 ELSE around(find_longest_match(a, b))

\* SequenceMatcher(a=a, b=b).ratio() = 2.0 * matches / (len(a) + len(b))
ratio(a, b) == IF Len(a) + Len(b) = 0 THEN <<1, 1>> ELSE Frac(2 * Matches(a, b), Len(a) + Len(b))

RECURSIVE StrLess(_, _)
\* Python's a < b on lowercase words
StrLess(a, b) ==
    IF b = "" THEN FALSE
    ELSE IF a = "" THEN TRUE
    ELSE IF Char(a, 1) # Char(b, 1)
    THEN Find(LowerChars, Char(a, 1)) < Find(LowerChars, Char(b, 1))
    ELSE StrLess(SubSeq(a, 2, Len(a)), SubSeq(b, 2, Len(b)))

\* difflib.get_close_matches(token, choices, n=1, cutoff=0.8), then the ratio of
\* SequenceMatcher(a=token, b=match): <<match, ratio>>, or <<>> for (None, 0.0)
_fuzzy_match(token, choices) ==
    LET scored == {<<x, ratio(x, token)>> : x \in choices}
        close == {p \in scored : ~FracLess(p[2], <<4, 5>>)}
        first(p, q) == \/ FracLess(q[2], p[2])
                       \/ q[2] = p[2] /\ (q[1] = p[1] \/ StrLess(q[1], p[1]))
        matched(best) == <<best[1], ratio(token, best[1])>>
        pick(S) == IF S = {} THEN <<>> ELSE matched(CHOOSE p \in S : \A q \in S : first(p, q))
    IN  pick(close)

_is_number_token(token) == IsDigit(token) \/ token \in DOMAIN NUMBER_WORDS

\* first index >= j of a token that is not number-ish (Len + 1 when there is none):
\* where the flight-level loop `while j < len(tokens) and _is_number_token(tokens[j])` stops
RECURSIVE NumberRunEnd(_, _)
NumberRunEnd(tokens, j) ==
    IF j <= Len(tokens) /\ _is_number_token(tokens[j]) THEN NumberRunEnd(tokens, j + 1) ELSE j

RECURSIVE FlightDigitsAsSpoken(_, _, _)
\* faulty variant of FlightDigits: number words are not turned into digits
FlightDigitsAsSpoken(tokens, j, k) ==
    IF j >= k THEN "" ELSE tokens[j] \o FlightDigitsAsSpoken(tokens, j + 1, k)

RECURSIVE FlightDigits(_, _, _)
\* the digits collected from tokens[j..k-1]
FlightDigits(tokens, j, k) ==
    IF j >= k THEN ""
    ELSE (IF IsDigit(tokens[j]) THEN tokens[j] ELSE NUMBER_WORDS[tokens[j]])
         \o FlightDigits(tokens, j + 1, k)

DigitStr(d) == Char("0123456789", d + 1)

\* f"{ratio:.2f}" for a ratio in [0, 1]
Fmt2(x) ==
    LET h == Round2(x[1], x[2]) IN
    DigitStr(h \div 100) \o "." \o DigitStr((h \div 10) % 10) \o DigitStr(h % 10)

\* faulty variant of RewriteStep: a flight level moves the cursor one token too far
RewriteStepOvershoots(tokens, idx, acc) ==
    LET token == tokens[idx]
        prev_num == idx > 1 /\ _is_number_token(tokens[idx - 1])
        next_num == idx + 1 <= Len(tokens) /\ _is_number_token(tokens[idx + 1])
        emit(t) == [idx |-> idx + 1, tokens |-> Append(acc.tokens, t), hints |-> acc.hints]
        emit_hint(t, h) == [idx |-> idx + 1, tokens |-> Append(acc.tokens, t),
                            hints |-> Append(acc.hints, h)]
        nato(fuzzy) ==
            IF fuzzy # <<>>
            THEN emit_hint(Token(token, NATO_WORDS[fuzzy[1]], "nato", fuzzy[2]),
                           "fuzzy NATO match '" \o token \o "' -> '" \o fuzzy[1]
                               \o "' (" \o Fmt2(fuzzy[2]) \o ")")
            ELSE emit(Token(token, token, "word", <<1, 1>>))
        word ==
            IF token \in DOMAIN CONTEXT_NUMBERS /\ (prev_num \/ next_num)
            THEN emit_hint(Token(token, NUMBER_WORDS[CONTEXT_NUMBERS[token]], "number", <<3, 4>>),
                           "context-normalized '" \o token \o "' -> '"
                               \o NUMBER_WORDS[CONTEXT_NUMBERS[token]] \o "'")
            ELSE IF token \in DOMAIN NUMBER_WORDS
            THEN emit(Token(token, NUMBER_WORDS[token], "number", <<1, 1>>))
            ELSE IF IsDigit(token)
            THEN emit(Token(token, token, "digits", <<1, 1>>))
            ELSE IF token \in DOMAIN NATO_WORDS
            THEN emit(Token(token, NATO_WORDS[token], "nato", <<1, 1>>))
            ELSE nato(_fuzzy_match(token, DOMAIN NATO_WORDS))
        flight(j, digits) ==
            IF digits # ""
            THEN [idx |-> j + 1,
                  tokens |-> Append(acc.tokens,
                                    Token("flight level", "FL" \o digits, "flight_level", <<1, 1>>)),
                  hints |-> acc.hints]
            ELSE word
        level(j) == flight(j, FlightDigits(tokens, idx + 2, j))
    IN  IF token = "flight" /\ idx + 1 <= Len(tokens) /\ tokens[idx + 1] = "level"
        THEN level(NumberRunEnd(tokens, idx + 2))
        ELSE word

\* one pass of the `while idx < len(tokens)` loop of normalize_icao at cursor idx
\* (1-based): [idx |-> the next cursor, tokens |-> ..., hints |-> ...]
RewriteStep(tokens, idx, acc) ==
    LET token == tokens[idx]
        prev_num == idx > 1 /\ _is_number_token(tokens[idx - 1])
        next_num == idx + 1 <= Len(tokens) /\ _is_number_token(tokens[idx + 1])
        emit(t) == [idx |-> idx + 1, tokens |-> Append(acc.tokens, t), hints |-> acc.hints]
        emit_hint(t, h) == [idx |-> idx + 1, tokens |-> Append(acc.tokens, t),
                            hints |-> Append(acc.hints, h)]
        nato(fuzzy) ==
            IF fuzzy # <<>>
            THEN emit_hint(Token(token, NATO_WORDS[fuzzy[1]], "nato", fuzzy[2]),
                           "fuzzy NATO match '" \o token \o "' -> '" \o fuzzy[1]
                               \o "' (" \o Fmt2(fuzzy[2]) \o ")")
            ELSE emit(Token(token, token, "word", <<1, 1>>))
        word ==
            IF token \in DOMAIN CONTEXT_NUMBERS /\ (prev_num \/ next_num)
            THEN emit_hint(Token(token, NUMBER_WORDS[CONTEXT_NUMBERS[token]], "number", <<3, 4>>),
                           "context-normalized '" \o token \o "' -> '"
                               \o NUMBER_WORDS[CONTEXT_NUMBERS[token]] \o "'")
            ELSE IF token \in DOMAIN NUMBER_WORDS
            THEN emit(Token(token, NUMBER_WORDS[token], "number", <<1, 1>>))
            ELSE IF IsDigit(token)
            THEN emit(Token(token, token, "digits", <<1, 1>>))
            ELSE IF token \in DOMAIN NATO_WORDS
            THEN emit(Token(token, NATO_WORDS[token], "nato", <<1, 1>>))
            ELSE nato(_fuzzy_match(token, DOMAIN NATO_WORDS))
        flight(j, digits) ==
            IF digits # ""
            THEN [idx |-> j,
                  tokens |-> Append(acc.tokens,
                                    Token("flight level", "FL" \o digits, "flight_level", <<1, 1>>)),
                  hints |-> acc.hints]
            ELSE word
        level(j) == flight(j, FlightDigits(tokens, idx + 2, j))
    IN  IF token = "flight" /\ idx + 1 <= Len(tokens) /\ tokens[idx + 1] = "level"
        THEN level(NumberRunEnd(tokens, idx + 2))
        ELSE word

RECURSIVE RewriteLoop(_, _)
RewriteLoop(tokens, acc) ==
    IF acc.idx > Len(tokens) THEN acc
    ELSE RewriteLoop(tokens, RewriteStep(tokens, acc.idx, acc))

\* str.isalpha() and str.isupper() together: non-empty, all uppercase letters
IsUpperAlpha(s) == Len(s) > 0 /\ \A i \in 1..Len(s) : Char(s, i) \in CharSet(UpperChars)

RECURSIVE JoinOutputAfterLetters(_, _)
\* faulty variant of JoinOutput: a NATO token is joined to any alphabetic text,
\* whatever its case
JoinOutputAfterLetters(tokens, output) ==
    IF tokens = <<>> THEN output
    ELSE LET token == Head(tokens)
             last == output[Len(output)]
         IN  IF /\ token.kind = "nato"
                /\ output # <<>>
                /\ last # ""
                /\ \A i \in 1..Len(last) : IsAlphaChar(Char(last, i))
             THEN JoinOutputAfterLetters(Tail(tokens),
                                         [output EXCEPT ![Len(output)] = @ \o token.normalized])
             ELSE JoinOutputAfterLetters(Tail(tokens), Append(output, token.normalized))

RECURSIVE JoinOutput(_, _)
\* the `output` list of _join_tokens after the tokens left to read
JoinOutput(tokens, output) ==
    IF tokens = <<>> THEN output
    ELSE LET token == Head(tokens) IN
         IF token.kind = "nato" /\ output # <<>> /\ IsUpperAlpha(output[Len(output)])
         THEN JoinOutput(Tail(tokens),
                         [output EXCEPT ![Len(output)] = @ \o token.normalized])
         ELSE JoinOutput(Tail(tokens), Append(output, token.normalized))

RECURSIVE SpaceJoin(_)
\* " ".join(parts)
SpaceJoin(parts) ==
    IF parts = <<>> THEN ""
    ELSE IF Len(parts) = 1 THEN parts[1]
    ELSE parts[1] \o " " \o SpaceJoin(Tail(parts))

\* a join that leaves every token apart
JoinEveryTokenApart(tokens) == SpaceJoin([i \in 1..Len(tokens) |-> tokens[i].normalized])

_join_tokens(tokens) == SpaceJoin(JoinOutput(tokens, <<>>))

normalize_icao(raw_text) ==
    LET built(done) == [raw_text |-> raw_text,
                        normalized_text |-> _join_tokens(done.tokens),
                        tokens |-> done.tokens,
                        confidence_hints |-> done.hints]
    IN  built(RewriteLoop(_tokenize(raw_text), [idx |-> 1, tokens |-> <<>>, hints |-> <<>>]))

(***************************************************************************)
(* backend/parsers.py                                                      *)
(*                                                                         *)
(* Token indices are 1-based.  An Optional[ParsedSlot] is None or the      *)
(* record ParsedSlot(...).  `for idx, token in enumerate(tokens)` loops    *)
(* that return at the first index that succeeds are FirstHit.              *)
(***************************************************************************)
ParsedSlot(name, value, confidence, raw_tokens) ==
    [name |-> name, value |-> value, confidence |-> confidence, raw_tokens |-> raw_tokens]

Min(S) == CHOOSE x \in S : \A y \in S : x <= y

\* the result at the first index where try(idx) is not None, else None
FirstHit(tokens, try(_)) ==
    LET hits == {i \in 1..Len(tokens) : try(i) # None} IN
    IF hits = {} THEN None ELSE try(Min(hits))

CallsignBodyChars == CharSet(UpperChars) \cup DigitChars

\* CALLSIGN_RE.match(value): ^[A-Z]{1,2}-?[A-Z0-9]{2,5}$
CALLSIGN_RE(value) ==
    \E p \in 1..2 : \E h \in 0..1 :
        /\ Len(value) - p - h \in 2..5
        /\ \A i \in 1..p : Char(value, i) \in CharSet(UpperChars)
        /\ h = 1 => Char(value, p + 1) = "-"
        /\ \A i \in (p + h + 1)..Len(value) : Char(value, i) \in CallsignBodyChars

RECURSIVE ConcatNormalized(_)
ConcatNormalized(run) ==
    IF run = <<>> THEN "" ELSE Head(run).normalized \o ConcatNormalized(Tail(run))

RECURSIVE MinConfidence(_)
\* min(item.confidence for item in run), run not empty
MinConfidence(run) ==
    IF Len(run) = 1 THEN run[1].confidence
    ELSE FracMin(run[1].confidence, MinConfidence(Tail(run)))

Raws(run) == [i \in 1..Len(run) |-> run[i].raw]

\* faulty variant of RunCallsign: the hyphen is tried after position 1 only
RunCallsignOnePrefix(nato_run) ==
    LET letters == ConcatNormalized(nato_run)
        candidate == SubSeq(letters, 1, 1) \o "-" \o SubSeq(letters, 2, Len(letters))
    IN  IF Len(nato_run) >= 3 /\ CALLSIGN_RE(candidate)
        THEN ParsedSlot("callsign", candidate, MinConfidence(nato_run), Raws(nato_run))
        ELSE None

\* the callsign a finished NATO run gives, or None
RunCallsign(nato_run) ==
    LET letters == ConcatNormalized(nato_run)
        candidate(prefix_len) ==
            SubSeq(letters, 1, prefix_len) \o "-" \o SubSeq(letters, prefix_len + 1, Len(letters))
        slot(prefix_len) ==
            ParsedSlot("callsign", candidate(prefix_len), MinConfidence(nato_run), Raws(nato_run))
    IN  IF Len(nato_run) < 3 THEN None
        ELSE IF Len(letters) > 1 /\ CALLSIGN_RE(candidate(1)) THEN slot(1)
        ELSE IF Len(letters) > 2 /\ CALLSIGN_RE(candidate(2)) THEN slot(2)
        ELSE None

RECURSIVE NatoRunLoop(_, _)
\* the second loop of parse_callsign over tokens + [sentinel]
NatoRunLoop(tokens, nato_run) ==
    IF tokens = <<>> THEN None
    ELSE IF Head(tokens).kind = "nato" THEN NatoRunLoop(Tail(tokens), Append(nato_run, Head(tokens)))
    ELSE IF RunCallsign(nato_run) # None THEN RunCallsign(nato_run)
    ELSE NatoRunLoop(Tail(tokens), <<>>)

parse_callsign(tokens) ==
    LET try(idx) ==
            LET token == tokens[idx]
                combined == token.normalized \o "-" \o tokens[idx + 1].normalized
            IN  IF CALLSIGN_RE(token.normalized)
                THEN ParsedSlot("callsign", token.normalized, token.confidence, <<token.raw>>)
                ELSE IF idx + 1 <= Len(tokens) /\ CALLSIGN_RE(combined)
                THEN ParsedSlot("callsign", combined,
                                FracMin(token.confidence, tokens[idx + 1].confidence),
                                <<token.raw, tokens[idx + 1].raw>>)
                ELSE None
        first == FirstHit(tokens, try)
    IN  IF first # None THEN first
        ELSE NatoRunLoop(Append(tokens, Token("", "", "word", <<1, 1>>)), <<>>)

parse_flight_level(tokens) ==
    LET try(idx) ==
            IF tokens[idx].kind = "flight_level" /\ SubSeq(tokens[idx].normalized, 1, 2) = "FL"
            THEN ParsedSlot("flight_level", tokens[idx].normalized, tokens[idx].confidence,
                            <<tokens[idx].raw>>)
            ELSE None
    IN  FirstHit(tokens, try)

RECURSIVE NumberRun(_, _)
\* the tokens _consume_number_sequence(tokens[idx:]) consumes (idx 1-based)
NumberRun(tokens, idx) ==
    IF /\ idx <= Len(tokens)
       /\ tokens[idx].kind \in {"number", "digits"}
       /\ IsDigit(tokens[idx].normalized)
    THEN <<tokens[idx]>> \o NumberRun(tokens, idx + 1)
    ELSE <<>>

\* (digits, raw_tokens, min confidence or 0.0)
_consume_number_sequence(tokens, idx) ==
    LET run == NumberRun(tokens, idx) IN
    [digits |-> ConcatNormalized(run),
     raw_tokens |-> Raws(run),
     confidence |-> IF run = <<>> THEN <<0, 1>> ELSE MinConfidence(run)]

RUNWAY_SUFFIX ==
    [l |-> "L", left |-> "L", r |-> "R", right |-> "R", c |-> "C", center |-> "C", centre |-> "C"]

\* str.zfill(2) of a digit string
Zfill2(digits) == IF Len(digits) < 2 THEN "0" \o digits ELSE digits

parse_runway(tokens) ==
    LET try(idx) ==
            LET seq == _consume_number_sequence(tokens, idx + 1)
                after == idx + 1 + Len(seq.raw_tokens)
                next_token == tokens[after]
                has_suffix == after <= Len(tokens)
                              /\ Lower(next_token.normalized) \in DOMAIN RUNWAY_SUFFIX
            IN  IF tokens[idx].normalized # "runway" \/ seq.digits = "" THEN None
                ELSE IF has_suffix
                THEN ParsedSlot("runway",
                                Zfill2(seq.digits) \o RUNWAY_SUFFIX[Lower(next_token.normalized)],
                                FracMin(seq.confidence, next_token.confidence),
                                <<tokens[idx].raw>> \o seq.raw_tokens \o <<next_token.raw>>)
                ELSE ParsedSlot("runway", Zfill2(seq.digits), seq.confidence,
                                <<tokens[idx].raw>> \o seq.raw_tokens)
    IN  FirstHit(tokens, try)

\* parse_altitude, parse_qnh and parse_squawk: a keyword, then a number run
KeywordNumber(tokens, name, keywords) ==
    LET try(idx) ==
            LET seq == _consume_number_sequence(tokens, idx + 1) IN
            IF tokens[idx].normalized \in keywords /\ seq.digits # ""
            THEN ParsedSlot(name, seq.digits, seq.confidence, <<tokens[idx].raw>> \o seq.raw_tokens)
            ELSE None
    IN  FirstHit(tokens, try)

parse_altitude(tokens) == KeywordNumber(tokens, "altitude", {"altitude", "alt", "height"})

parse_qnh(tokens) == KeywordNumber(tokens, "qnh", {"qnh"})

parse_squawk(tokens) == KeywordNumber(tokens, "squawk", {"squawk"})

UpperChar(c) ==
    IF c \in CharSet(LowerChars) THEN Char(UpperChars, Find(LowerChars, c)) ELSE c

RECURSIVE Upper(_)
\* str.upper(), one half of the string after the other
Upper(s) ==
    IF Len(s) <= 1 THEN UpperChar(s)
    ELSE Upper(SubSeq(s, 1, Len(s) \div 2)) \o Upper(SubSeq(s, Len(s) \div 2 + 1, Len(s)))

\* Optional[str]: "" stands for None (both are falsy where the result is used)
_normalize_letter_token(token) ==
    IF token.kind = "nato" THEN token.normalized
    ELSE IF IsAlnum(token.normalized) /\ Len(token.normalized) <= 3 THEN Upper(token.normalized)
    ELSE ""

\* parse_sector and parse_taxiway: a keyword, then a letter-like token
KeywordLetter(tokens, name, keywords) ==
    LET try(idx) ==
            IF /\ tokens[idx].normalized \in keywords
               /\ idx + 1 <= Len(tokens)
               /\ _normalize_letter_token(tokens[idx + 1]) # ""
            THEN ParsedSlot(name, _normalize_letter_token(tokens[idx + 1]),
                            tokens[idx + 1].confidence, <<tokens[idx].raw, tokens[idx + 1].raw>>)
            ELSE None
    IN  FirstHit(tokens, try)

parse_sector(tokens) == KeywordLetter(tokens, "sector", {"sector", "sektor"})

parse_taxiway(tokens) == KeywordLetter(tokens, "taxiway", {"taxiway"})

parse_position(tokens) ==
    LET try(idx) ==
            IF tokens[idx].normalized # "apron" THEN None
            ELSE IF idx + 1 <= Len(tokens) /\ tokens[idx + 1].kind = "word"
            THEN ParsedSlot("position", "apron " \o tokens[idx + 1].normalized,
                            FracMin(tokens[idx].confidence, tokens[idx + 1].confidence),
                            <<tokens[idx].raw, tokens[idx + 1].raw>>)
            ELSE ParsedSlot("position", "apron", tokens[idx].confidence, <<tokens[idx].raw>>)
    IN  FirstHit(tokens, try)

parse_holding_point(tokens) ==
    LET try(idx) ==
            IF /\ tokens[idx].normalized \in {"holding", "hold"}
               /\ idx + 2 <= Len(tokens)
               /\ tokens[idx + 1].normalized = "point"
               /\ _normalize_letter_token(tokens[idx + 2]) # ""
            THEN ParsedSlot("holding_point", _normalize_letter_token(tokens[idx + 2]),
                            tokens[idx + 2].confidence,
                            <<tokens[idx].raw, tokens[idx + 1].raw, tokens[idx + 2].raw>>)
            ELSE IF /\ tokens[idx].normalized = "stop"
                    /\ idx + 1 <= Len(tokens)
                    /\ _normalize_letter_token(tokens[idx + 1]) # ""
            THEN ParsedSlot("holding_point", _normalize_letter_token(tokens[idx + 1]),
                            tokens[idx + 1].confidence, <<tokens[idx].raw, tokens[idx + 1].raw>>)
            ELSE None
    IN  FirstHit(tokens, try)

RECURSIVE RemoveKt(_)
\* s.replace("kt", "")
RemoveKt(s) ==
    IF Len(s) < 2 THEN s
    ELSE IF SubSeq(s, 1, 2) = "kt" THEN RemoveKt(SubSeq(s, 3, Len(s)))
    ELSE Char(s, 1) \o RemoveKt(SubSeq(s, 2, Len(s)))

EndsWithKt(s) == Len(s) >= 2 /\ SubSeq(s, Len(s) - 1, Len(s)) = "kt"

parse_wind(tokens) ==
    LET try(idx) ==
            LET direction == tokens[idx + 1]
                candidate == tokens[idx + 2]
                has_kt == idx + 2 <= Len(tokens) /\ EndsWithKt(candidate.normalized)
                has_num == idx + 2 <= Len(tokens) /\ ~has_kt /\ IsDigit(candidate.normalized)
                unit == idx + 3 <= Len(tokens) /\ tokens[idx + 3].normalized \in {"kt", "kts"}
                speed == IF has_kt THEN RemoveKt(candidate.normalized)
                         ELSE IF has_num THEN candidate.normalized
                         ELSE ""
                c1 == IF has_kt \/ has_num
                      THEN FracMin(direction.confidence, candidate.confidence)
                      ELSE direction.confidence
                speed_confidence == IF has_num /\ unit
                                    THEN FracMin(c1, tokens[idx + 3].confidence) ELSE c1
            IN  IF \/ tokens[idx].normalized # "wind"
                   \/ idx + 1 > Len(tokens)
                   \/ ~IsDigit(direction.normalized)
                THEN None
                ELSE IF speed # ""
                THEN ParsedSlot("wind", direction.normalized \o "/" \o speed, speed_confidence,
                                <<tokens[idx].raw, direction.raw>>)
                ELSE ParsedSlot("wind", direction.normalized, direction.confidence,
                                <<tokens[idx].raw, direction.raw>>)
    IN  FirstHit(tokens, try)

parse_time(tokens) ==
    LET try(idx) ==
            IF /\ tokens[idx].normalized = "time"
               /\ idx + 1 <= Len(tokens)
               /\ IsDigit(tokens[idx + 1].normalized)
            THEN ParsedSlot("time", tokens[idx + 1].normalized, tokens[idx + 1].confidence,
                            <<tokens[idx].raw, tokens[idx + 1].raw>>)
            ELSE None
    IN  FirstHit(tokens, try)

\* the dict parse_all returns: slot name -> ParsedSlot (every parser names its own slot)
parse_all(normalization) ==
    LET tokens == normalization.tokens
        present(found) == [name \in {n \in DOMAIN found : found[n] # None} |-> found[name]]
    IN  present([callsign |-> parse_callsign(tokens),
                 runway |-> parse_runway(tokens),
                 altitude |-> parse_altitude(tokens),
                 flight_level |-> parse_flight_level(tokens),
                 qnh |-> parse_qnh(tokens),
                 squawk |-> parse_squawk(tokens),
                 sector |-> parse_sector(tokens),
                 position |-> parse_position(tokens),
                 taxiway |-> parse_taxiway(tokens),
                 holding_point |-> parse_holding_point(tokens),
                 wind |-> parse_wind(tokens),
                 time |-> parse_time(tokens)])

(***************************************************************************)
(* The client session and the requests it sends                            *)
(***************************************************************************)
UnknownScenario == "no_such_scenario"

UnknownState == "no_such_state"

StateNames == DOMAIN Graz \cup DOMAIN STATE_EXPECTATIONS \cup {UnknownState}

\* the (state, scenario) pairs a session may start with
Sessions ==
    (StateNames \X {"graz_vfr_sector_e"})
        \cup ({"initial_call", "taxi", UnknownState} \X {UnknownScenario})

\* transcripts the speech front end may deliver
Utterances ==
    {"Delta alpha bravo charlie, runway two seven left, QNH 1013",
     "Delta alpha bravo apron south, stop B, sector E altitude 3000",
     "Delta alpha bravo runway 27 wind 270 5kt, sector E time 13",
     "QNH 950",
     "tree fife niner"}

\* the values a caller may give each slot-bag key
ValuePool ==
    [callsign |-> {"D-ABC", "  "},
     position |-> {"apron"},
     destination |-> {"EDDF"},
     runway |-> {"27", "L"},
     qnh |-> {"1013", "abc"},
     holding_point |-> {"b", ""},
     sector |-> {"E", "e-1"},
     altitude |-> {"3000"},
     wind |-> {"270/5", "2700/5"},
     time |-> {"13", "75"},
     squawk |-> {"4521"},
     expected_runway |-> {"27R", "09"},
     expected_qnh |-> {" 1013", "1014"},
     expected_holding_point |-> {"B", "A1"},
     expected_sector |-> {"e", "W"},
     expected_altitude |-> {"3000", "2500"},
     expected_wind |-> {"270/5", "270"}]

MaxSlots == 2

RECURSIVE Range(_)
Range(seq) == IF seq = <<>> THEN {} ELSE {Head(seq)} \cup Range(Tail(seq))

\* the keys validate reads for a request in state st
RelevantKeys(st, scen) ==
    LET names == Range(_expected_rules_for_state(st, scen))
                     \cup Range(_readback_expectations(st, scen))
    IN  {k \in DOMAIN ValuePool :
            k \in names \/ \E n \in names : k = "expected_" \o n} \cup {"squawk"}

\* the current_slots a caller may send: at most MaxSlots keys
SlotBags(st, scen) ==
    UNION {{bag \in [keys -> UNION {ValuePool[k] : k \in keys}] :
               \A k \in keys : bag[k] \in ValuePool[k]} :
           keys \in {K \in SUBSET RelevantKeys(st, scen) : Cardinality(K) <= MaxSlots}}

(***************************************************************************)
(* backend/stt_handler.py                                                  *)
(***************************************************************************)
\* the texts of the literal end-to-end requests
Literals ==
    {"Delta alpha bravo charlie runway two seven left",
     "Flight level one zero zero",
     "QNH 950"}

\* empty and whitespace-only texts
Blanks == {"", "   ", " \t\n"}

Texts == Utterances \cup Literals \cup Blanks

\* normalize_icao(stt_text) and parse_all(normalization), tabulated once for the
\* transcripts of the model
Normalization == [text \in Texts |-> normalize_icao(text)]

Parsed == [text \in Texts |-> parse_all(Normalization[text])]

\* faulty variant of Merge: a value the caller gave is kept over the parsed one
MergeCallerWins(current_slots, parsed_slots) ==
    [k \in DOMAIN current_slots \cup DOMAIN parsed_slots |->
        IF k \in DOMAIN current_slots THEN current_slots[k] ELSE parsed_slots[k].value]

\* merged_slots = dict(current_slots or {}); merged_slots.update(slot_values)
Merge(current_slots, parsed_slots) ==
    [k \in DOMAIN current_slots \cup DOMAIN parsed_slots |->
        IF k \in DOMAIN parsed_slots THEN parsed_slots[k].value ELSE current_slots[k]]

\* each step of the function is given the values of the steps before it:
\* merge (lines 63-66), check (68-73), decide (74-80), response (82-110)
handle_stt(stt_text, st, current_slots, scen, env) ==
    LET response(normalization, parsed_slots, validation, next_state, atc_response) ==
            IF atc_response.tag = "raise" THEN atc_response
            ELSE Return([text |-> stt_text,
                         state |-> st,
                         normalized |-> normalization.normalized_text,
                         tokens |-> normalization.tokens,
                         slots |-> [name \in DOMAIN parsed_slots |->
                                       [value |-> parsed_slots[name].value,
                                        confidence |-> parsed_slots[name].confidence,
                                        raw_tokens |-> parsed_slots[name].raw_tokens]],
                         validation |-> validation,
                         next_state |-> next_state,
                         atc_response |-> atc_response.value])
        decide(normalization, parsed_slots, merged_slots, validation) ==
            response(normalization, parsed_slots, validation,
                     advance_state(st, validation, scen),
                     build_atc_response(st, scen, merged_slots, validation, env))
        check(normalization, parsed_slots, merged_slots) ==
            decide(normalization, parsed_slots, merged_slots,
                   validate(st, merged_slots, normalization.normalized_text, scen))
        merge(normalization, parsed_slots) ==
            check(normalization, parsed_slots, Merge(current_slots, parsed_slots))
    IN  merge(Normalization[stt_text], Parsed[stt_text])

Env(renderer, endpoint, reply) == [renderer |-> renderer, endpoint |-> endpoint, reply |-> reply]

Reply(kind, has_text, text) == [kind |-> kind, has_text |-> has_text, text |-> text]

\* what the POST to LLM_ENDPOINT may do
Replies ==
    {Reply("exception", FALSE, ""),
     Reply("not_json", FALSE, ""),
     Reply("object", FALSE, ""),
     Reply("object", TRUE, ""),
     Reply("object", TRUE, "<ATC>Roger</ATC>"),
     Reply("array", FALSE, "")}

\* the environments a request may run in
Envs ==
    {Env("", "http://llm/render", Reply("object", TRUE, "<ATC>Roger</ATC>")),
     Env("TRUE", "", Reply("exception", FALSE, "")),
     Env("yes", "llm", Reply("exception", FALSE, ""))}
        \cup {Env("1", "http://llm/render", reply) : reply \in Replies}

NoRequest == [none |-> TRUE]

NoResult == [tag |-> "none"]

\* no normalize_icao call is being followed
NoCall == [none |-> TRUE]

NormalizerIdle == loop = NoCall /\ parsing = NoCall

\* no handle_stt invocation is being followed
WorkersIdle == caller_slots = <<>> /\ environ = <<>> /\ frames = <<>>

\* no execute call has been made on the graph as it is now
NoExecution == [none |-> TRUE]

\* no get call has been made
NoGet == [none |-> TRUE]

\* the node editor has not been started
EngineIdle ==
    /\ graph = [nodes |-> <<>>, connections |-> <<>>]
    /\ cache = <<>>
    /\ execution = NoExecution
    /\ calls = <<>>
    /\ got = NoGet

Init ==
    /\ \E start \in Sessions : state = start[1] /\ scenario = start[2]
    /\ request = NoRequest
    /\ result = NoResult
    /\ NormalizerIdle
    /\ WorkersIdle
    /\ EngineIdle

\* the server answers one POST /stt
HandleStt ==
    /\ request = NoRequest
    /\ \E text \in Utterances, current_slots \in SlotBags(state, scenario), env \in Envs :
           /\ request' = [text |-> text, state |-> state, scenario |-> scenario,
                          current_slots |-> current_slots, env |-> env]
           /\ result' = handle_stt(text, state, current_slots, scenario, env)
    /\ UNCHANGED <<state, scenario, normalizer, workers, engine>>

\* the client takes next_state from the answer as the state of its next request
\* (after an error answer it keeps its state)
ClientAdvance ==
    /\ request # NoRequest
    /\ state' = IF result.tag = "return" THEN result.value.next_state ELSE state
    /\ request' = NoRequest
    /\ result' = NoResult
    /\ UNCHANGED <<scenario, normalizer, workers, engine>>

Next == HandleStt \/ ClientAdvance

Spec == Init /\ [][Next]_vars

(***************************************************************************)
(* backend/stt_audio.py and backend/app.py: the two POST endpoints         *)
(*                                                                         *)
(* An upload is [readable, bytes, decodable, speech]: whether audio.read() *)
(* succeeds, the bytes it gives, whether the speech engine loads and       *)
(* decodes them, and the segment texts it then hears.  The current_slots   *)
(* form field of /stt/audio is a string, "" when the field is absent.      *)
(* An Optional mapping that is None is the empty bag <<>>: both are falsy  *)
(* in `dict(current_slots or {})`.                                         *)
(***************************************************************************)
HTTPException(status_code, detail) ==
    [tag |-> "raise", exc |-> "HTTPException", status_code |-> status_code, detail |-> detail]

STTTranscript(text, segments) == [text |-> text, segments |-> segments]

\* texts.append(segment.text.strip()) for every segment
StripAll(segments) == [i \in 1..Len(segments) |-> Strip(segments[i])]

transcribe_audio(upload) ==
    IF ~upload.decodable THEN Raise("Exception")
    ELSE Return(STTTranscript(Strip(SpaceJoin(StripAll(upload.speech))),
                              [i \in 1..Len(upload.speech) |->
                                  [text |-> Strip(upload.speech[i])]]))

\* json.loads of the form strings a client may send: the objects among them
JSON_OBJECTS ==
    ("{}" :> <<>>)
        @@ ("{\"callsign\": \"D-ABC\", \"expected_qnh\": \"1013\"}"
                :> [callsign |-> "D-ABC", expected_qnh |-> "1013"])

json_loads(text) ==
    IF text \in DOMAIN JSON_OBJECTS THEN Return(JSON_OBJECTS[text]) ELSE Raise("JSONDecodeError")

stt_endpoint(payload, env) ==
    IF Strip(payload.text) = "" THEN HTTPException(400, "text must not be empty")
    ELSE handle_stt(payload.text, payload.state, payload.current_slots, payload.scenario, env)

stt_audio_endpoint(audio, st, scen, current_slots, env) ==
    LET answer(transcript, pipeline) ==
            IF pipeline.tag = "raise" THEN pipeline
            ELSE Return(pipeline.value @@ [segments |-> transcript.segments])
        run(transcript, parsed_slots) ==
            answer(transcript, handle_stt(transcript.text, st, parsed_slots, scen, env))
        slots(transcript, loaded) ==
            IF current_slots = "" THEN run(transcript, <<>>)
            ELSE IF loaded.tag = "raise"
            THEN HTTPException(400, "current_slots must be valid JSON")
            ELSE run(transcript, loaded.value)
        heard(transcript) ==
            IF transcript.tag = "raise"
            THEN HTTPException(500, "STT engine unavailable or failed to decode audio.")
            ELSE slots(transcript.value, json_loads(current_slots))
    IN  IF ~audio.readable THEN HTTPException(400, "failed to read audio")
        ELSE IF audio.bytes = "" THEN HTTPException(400, "audio payload is empty")
        ELSE heard(transcribe_audio(audio))

Upload(readable, bytes, decodable, speech) ==
    [readable |-> readable, bytes |-> bytes, decodable |-> decodable, speech |-> speech]

\* the recordings a client may upload
Uploads ==
    {Upload(FALSE, "", FALSE, <<>>),
     Upload(TRUE, "", FALSE, <<>>),
     Upload(TRUE, "RIFF", FALSE, <<>>),
     Upload(TRUE, "RIFF", TRUE, <<>>),
     Upload(TRUE, "RIFF", TRUE, <<"  ">>),
     Upload(TRUE, "RIFF", TRUE, <<" QNH", " 950 ">>),
     Upload(TRUE, "RIFF", TRUE, <<" Flight level one zero zero">>)}

\* the current_slots a client may post with a text
PostedSlots ==
    {<<>>,
     [callsign |-> "DLH1", destination |-> "EDDF", runway |-> "27"],
     [callsign |-> "D-ABC", expected_qnh |-> "1013"]}

\* the current_slots form strings a client may post with a recording
FormSlots == {"", "{}", "{\"callsign\": \"D-ABC\", \"expected_qnh\": \"1013\"}", "{callsign"}

\* the server answers one POST /stt
SttEndpoint ==
    /\ request = NoRequest
    /\ \E text \in Literals \cup Blanks, current_slots \in PostedSlots, env \in Envs :
           /\ request' = [endpoint |-> "/stt", text |-> text, state |-> state,
                          scenario |-> scenario, current_slots |-> current_slots, env |-> env]
           /\ result' = stt_endpoint([text |-> text, state |-> state, scenario |-> scenario,
                                      current_slots |-> current_slots], env)
    /\ UNCHANGED <<state, scenario, normalizer, workers, engine>>

\* the server answers one POST /stt/audio
SttAudioEndpoint ==
    /\ request = NoRequest
    /\ \E audio \in Uploads, current_slots \in FormSlots, env \in Envs :
           /\ request' = [endpoint |-> "/stt/audio", audio |-> audio, state |-> state,
                          scenario |-> scenario, current_slots |-> current_slots, env |-> env]
           /\ result' = stt_audio_endpoint(audio, state, scenario, current_slots, env)
    /\ UNCHANGED <<state, scenario, normalizer, workers, engine>>

ApiNext == SttEndpoint \/ SttAudioEndpoint \/ ClientAdvance

ApiSpec == Init /\ [][ApiNext]_vars

(***************************************************************************)
(* backend/normalizer.py, normalize_icao followed one loop pass at a time  *)
(*                                                                         *)
(* loop = [raw_text, tokens, acc, returned]: the argument, _tokenize of    *)
(* it, the cursor with the tokens and hints emitted so far (acc.idx is     *)
(* 1-based: Python's idx + 1), and the NormalizationResult once the call   *)
(* has returned (None before).                                             *)
(***************************************************************************)
\* words as a speech front end or a keyboard may deliver them
Vocabulary == {"Flight", "level", "one", "TO", "for", "10", "Delta,", "alfa-x"}

MaxWords == 3

\* the raw texts of at most MaxWords words
RawTexts ==
    {SpaceJoin(words) : words \in UNION {[1..n -> Vocabulary] : n \in 0..MaxWords}}

\* no session is running
SessionIdle ==
    /\ state = "initial_call"
    /\ scenario = "graz_vfr_sector_e"
    /\ request = NoRequest
    /\ result = NoResult

NormalizeInit ==
    /\ SessionIdle
    /\ WorkersIdle
    /\ EngineIdle
    /\ parsing = NoCall
    /\ \E raw_text \in RawTexts :
           loop = [raw_text |-> raw_text,
                   tokens |-> _tokenize(raw_text),
                   acc |-> [idx |-> 1, tokens |-> <<>>, hints |-> <<>>],
                   returned |-> None]

\* one pass of `while idx < len(tokens)`
Rewrite ==
    /\ loop.returned = None
    /\ loop.acc.idx <= Len(loop.tokens)
    /\ loop' = [loop EXCEPT !.acc = RewriteStep(loop.tokens, loop.acc.idx, loop.acc)]
    /\ UNCHANGED <<parsing, session, workers, engine>>

\* the loop is left: _join_tokens and the return
ReturnResult ==
    /\ loop.returned = None
    /\ loop.acc.idx > Len(loop.tokens)
    /\ loop' = [loop EXCEPT !.returned = [raw_text |-> loop.raw_text,
                                          normalized_text |-> _join_tokens(loop.acc.tokens),
                                          tokens |-> loop.acc.tokens,
                                          confidence_hints |-> loop.acc.hints]]
    /\ UNCHANGED <<parsing, session, workers, engine>>

NormalizeNext == Rewrite \/ ReturnResult

NormalizeSpec == NormalizeInit /\ [][NormalizeNext]_vars

(***************************************************************************)
(* backend/parsers.py, parse_callsign on the tokens of a transmission      *)
(*                                                                         *)
(* parsing = [tokens, returned]: the argument and, once the call has       *)
(* returned, the ParsedSlot or None (NoResult before).  The tokens are     *)
(* such as normalize_icao emits: NATO tokens of one uppercase letter,      *)
(* exact or fuzzy, lowercase words, single digits, decimal strings and     *)
(* flight levels.  A transmission is a run of NATO tokens, a separator, a  *)
(* second run and a tail.                                                  *)
(***************************************************************************)
\* the longest run of NATO tokens in a transmission
MaxRun == 8

SpelledWords ==
    <<"delta", "alpha", "bravo", "charlie", "echo", "foxtrot", "golf", "hotel", "india",
      "juliet", "kilo", "lima">>

\* 'alpa' is matched to 'alpha' with ratio 8/9
FuzzyToken == Token("alpa", "A", "nato", <<8, 9>>)

\* a run of n NATO tokens starting at word `from`, the one at position fuzzy (if
\* any) being a fuzzy match
NatoRun(n, from, fuzzy) ==
    [i \in 1..n |->
        IF i = fuzzy THEN FuzzyToken
        ELSE Token(SpelledWords[from + i - 1], NATO_WORDS[SpelledWords[from + i - 1]],
                   "nato", <<1, 1>>)]

Separators ==
    {<<Token("stop", "stop", "word", <<1, 1>>)>>,
     <<Token("for", "4", "number", <<3, 4>>)>>}

Tails ==
    {<<>>,
     <<Token("runway", "runway", "word", <<1, 1>>)>>,
     <<Token("10", "10", "digits", <<1, 1>>)>>,
     <<Token("flight level", "FL10", "flight_level", <<1, 1>>)>>}

Transmissions ==
    {NatoRun(n1, 1, fuzzy) \o separator \o NatoRun(n2, 4, 0) \o tail :
        n1 \in 0..MaxRun, fuzzy \in 0..MaxRun, n2 \in 0..MaxRun,
        separator \in Separators, tail \in Tails}

ParseInit ==
    /\ SessionIdle
    /\ WorkersIdle
    /\ EngineIdle
    /\ loop = NoCall
    /\ \E tokens \in Transmissions : parsing = [tokens |-> tokens, returned |-> NoResult]

\* the call returns
ParseCallsign ==
    /\ parsing # NoCall
    /\ parsing.returned = NoResult
    /\ parsing' = [parsing EXCEPT !.returned = parse_callsign(parsing.tokens)]
    /\ UNCHANGED <<loop, session, workers, engine>>

ParseNext == ParseCallsign

ParseSpec == ParseInit /\ [][ParseNext]_vars

(***************************************************************************)
(* backend/stt_handler.py, concurrent invocations of handle_stt            *)
(*                                                                         *)
(* The server's workers run handle_stt side by side.  What they share is   *)
(* the module-level data, which nothing assigns to (SCENARIOS,             *)
(* STATE_EXPECTATIONS and the other tables are definitions here), the      *)
(* process environment, and, when a caller hands the same mapping to       *)
(* several calls, that mapping: caller_slots.  frames[i] holds the         *)
(* arguments and the locals of invocation i, None while unassigned; pc is  *)
(* the statement it is about to run.                                       *)
(***************************************************************************)
MaxCalls == 2

Invocations == 1..MaxCalls

\* the mappings callers may pass as current_slots
CallerBags == {<<>>, [callsign |-> "D-ABC", qnh |-> "1013", expected_qnh |-> "1013"]}

\* the environments the server process may run in
ProcessEnvs ==
    {Env("", "", Reply("exception", FALSE, "")),
     Env("1", "http://llm/render", Reply("object", TRUE, "<ATC>Roger</ATC>"))}

\* faulty variant of CallerSlotsAfterMerge: merged_slots is the caller's mapping
\* itself, updated in place
CallerSlotsUpdatedInPlace(current_slots, parsed_slots) == Merge(current_slots, parsed_slots)

\* the caller's mapping after lines 65-66: dict(current_slots or {}) is a copy, and
\* update() writes the copy
CallerSlotsAfterMerge(current_slots, parsed_slots) == current_slots

Frame(stt_text, st, scen) ==
    [pc |-> "normalize", stt_text |-> stt_text, state |-> st, scenario |-> scen,
     normalization |-> None, parsed_slots |-> None, merged_slots |-> None,
     validation |-> None, next_state |-> None, atc_response |-> None, returned |-> None]

ConcurrentInit ==
    /\ SessionIdle
    /\ NormalizerIdle
    /\ EngineIdle
    /\ caller_slots \in CallerBags
    /\ environ \in ProcessEnvs
    /\ frames \in [Invocations ->
                     {Frame(text, st, "graz_vfr_sector_e") :
                         text \in {"QNH 950", "tree fife niner"}, st \in {"qnh_update", "taxi"}}]

\* lines 61-62
Normalize(i) ==
    /\ frames[i].pc = "normalize"
    /\ frames' = [frames EXCEPT ![i].normalization = Normalization[frames[i].stt_text],
                                ![i].parsed_slots = Parsed[frames[i].stt_text],
                                ![i].pc = "merge"]
    /\ UNCHANGED <<caller_slots, environ, session, normalizer, engine>>

\* lines 63-66
MergeSlots(i) ==
    /\ frames[i].pc = "merge"
    /\ frames' = [frames EXCEPT ![i].merged_slots = Merge(caller_slots, frames[i].parsed_slots),
                                ![i].pc = "validate"]
    /\ caller_slots' = CallerSlotsAfterMerge(caller_slots, frames[i].parsed_slots)
    /\ UNCHANGED <<environ, session, normalizer, engine>>

\* lines 68-73
Validate(i) ==
    /\ frames[i].pc = "validate"
    /\ frames' = [frames EXCEPT ![i].validation =
                                    validate(frames[i].state, frames[i].merged_slots,
                                             frames[i].normalization.normalized_text,
                                             frames[i].scenario),
                                ![i].pc = "advance"]
    /\ UNCHANGED <<caller_slots, environ, session, normalizer, engine>>

\* line 74
Advance(i) ==
    /\ frames[i].pc = "advance"
    /\ frames' = [frames EXCEPT ![i].next_state =
                                    advance_state(frames[i].state, frames[i].validation,
                                                  frames[i].scenario),
                                ![i].pc = "respond"]
    /\ UNCHANGED <<caller_slots, environ, session, normalizer, engine>>

\* lines 75-80; an exception of the renderer leaves handle_stt
Respond(i) ==
    /\ frames[i].pc = "respond"
    /\ LET with(atc_response) ==
               IF atc_response.tag = "raise"
               THEN [frames EXCEPT ![i].returned = atc_response, ![i].pc = "done"]
               ELSE [frames EXCEPT ![i].atc_response = atc_response.value, ![i].pc = "return"]
       IN  frames' = with(build_atc_response(frames[i].state, frames[i].scenario,
                                             frames[i].merged_slots, frames[i].validation,
                                             environ))
    /\ UNCHANGED <<caller_slots, environ, session, normalizer, engine>>

\* lines 82-110
ReturnResponse(i) ==
    /\ frames[i].pc = "return"
    /\ LET f == frames[i] IN
       frames' = [frames EXCEPT
                     ![i].returned =
                         Return([text |-> f.stt_text,
                                 state |-> f.state,
                                 normalized |-> f.normalization.normalized_text,
                                 tokens |-> f.normalization.tokens,
                                 slots |-> [name \in DOMAIN f.parsed_slots |->
                                               [value |-> f.parsed_slots[name].value,
                                                confidence |-> f.parsed_slots[name].confidence,
                                                raw_tokens |-> f.parsed_slots[name].raw_tokens]],
                                 validation |-> f.validation,
                                 next_state |-> f.next_state,
                                 atc_response |-> f.atc_response]),
                     ![i].pc = "done"]
    /\ UNCHANGED <<caller_slots, environ, session, normalizer, engine>>

ConcurrentNext ==
    \E i \in Invocations :
        \/ Normalize(i)
        \/ MergeSlots(i)
        \/ Validate(i)
        \/ Advance(i)
        \/ Respond(i)
        \/ ReturnResponse(i)

ConcurrentSpec == ConcurrentInit /\ [][ConcurrentNext]_vars

(***************************************************************************)
(* openvisionstudio/engine/cache.py                                        *)
(*                                                                         *)
(* NodeCache._entries is a dict: a function from the node ids present to   *)
(* their CacheEntry.  `calls` keeps the put, invalidate and clear calls in *)
(* the order they were made.                                               *)
(***************************************************************************)
CacheEntry(signature, outputs) == [signature |-> signature, outputs |-> outputs]

\* a get that returns the entry of the node whatever its signature
get_any_signature(entries, node_id, signature) ==
    IF node_id \notin DOMAIN entries THEN None ELSE entries[node_id].outputs

get(entries, node_id, signature) ==
    IF node_id \notin DOMAIN entries THEN None
    ELSE IF entries[node_id].signature # signature THEN None
    ELSE entries[node_id].outputs

put(entries, node_id, signature, outputs) ==
    (node_id :> CacheEntry(signature, outputs)) @@ entries

invalidate(entries, node_id) ==
    IF DOMAIN entries \subseteq {node_id} THEN <<>>
    ELSE [n \in DOMAIN entries \ {node_id} |-> entries[n]]

clear(entries) == <<>>

\* node ids, signatures and output maps of the calls made on a cache
CacheNodeIds == {"n1", "n2"}

Signatures == {"abc", "xyz"}

OutputMaps == {<<>>, [image |-> 1], [image |-> 2]}

MaxCacheCalls == 3

CacheInit ==
    /\ SessionIdle
    /\ NormalizerIdle
    /\ WorkersIdle
    /\ EngineIdle

Put ==
    /\ Len(calls) < MaxCacheCalls
    /\ \E node_id \in CacheNodeIds, signature \in Signatures, outputs \in OutputMaps :
           /\ cache' = put(cache, node_id, signature, outputs)
           /\ calls' = Append(calls, [op |-> "put", node_id |-> node_id,
                                      signature |-> signature, outputs |-> outputs])
    /\ got' = NoGet
    /\ UNCHANGED <<graph, execution, session, normalizer, workers>>

Invalidate ==
    /\ Len(calls) < MaxCacheCalls
    /\ \E node_id \in CacheNodeIds :
           /\ cache' = invalidate(cache, node_id)
           /\ calls' = Append(calls, [op |-> "invalidate", node_id |-> node_id])
    /\ got' = NoGet
    /\ UNCHANGED <<graph, execution, session, normalizer, workers>>

Clear ==
    /\ Len(calls) < MaxCacheCalls
    /\ cache' = clear(cache)
    /\ calls' = Append(calls, [op |-> "clear"])
    /\ got' = NoGet
    /\ UNCHANGED <<graph, execution, session, normalizer, workers>>

Get ==
    /\ \E node_id \in CacheNodeIds, signature \in Signatures :
           got' = [node_id |-> node_id, signature |-> signature,
                   value |-> get(cache, node_id, signature)]
    /\ UNCHANGED <<graph, cache, execution, calls, session, normalizer, workers>>

CacheNext == Put \/ Invalidate \/ Clear \/ Get

CacheSpec == CacheInit /\ [][CacheNext]_vars

(***************************************************************************)
(* openvisionstudio/engine/graph_model.py                                  *)
(*                                                                         *)
(* GraphModel.nodes is a dict in insertion order: the sequence of its      *)
(* NodeModels, with distinct node ids.  connections is the list of         *)
(* ConnectionModels.                                                       *)
(***************************************************************************)
NodeModel(node_id, type_name, params) ==
    [node_id |-> node_id, type_name |-> type_name, params |-> params]

ConnectionModel(src_node, src_port, dst_node, dst_port) ==
    [src_node |-> src_node, src_port |-> src_port, dst_node |-> dst_node, dst_port |-> dst_port]

GraphModel(nodes, connections) == [nodes |-> nodes, connections |-> connections]

\* list(graph.nodes): the node ids in insertion order
Keys(g) == [i \in 1..Len(g.nodes) |-> g.nodes[i].node_id]

\* graph.nodes[node_id]
NodeOf(g, node_id) ==
    g.nodes[CHOOSE i \in 1..Len(g.nodes) : g.nodes[i].node_id = node_id]

upstream(g, node_id) == SelectSeq(g.connections, LAMBDA c : c.dst_node = node_id)

downstream(g, node_id) == SelectSeq(g.connections, LAMBDA c : c.src_node = node_id)

RECURSIVE Relax(_, _, _)
\* the inner for loop of topological_sort over downstream(node_id): the queue
\* and the indegrees after it
Relax(conns, queue, indegree) ==
    IF conns = <<>> THEN [queue |-> queue, indegree |-> indegree]
    ELSE LET dst == Head(conns).dst_node IN
         Relax(Tail(conns),
               IF indegree[dst] = 1 THEN Append(queue, dst) ELSE queue,
               [indegree EXCEPT ![dst] = @ - 1])

RECURSIVE Kahn(_, _, _, _)
\* the while loop of topological_sort: `ordered` when the queue has run empty
Kahn(g, queue, ordered, indegree) ==
    IF queue = <<>> THEN ordered
    ELSE LET next(relaxed) ==
                 Kahn(g, relaxed.queue, Append(ordered, Head(queue)), relaxed.indegree)
         IN  next(Relax(downstream(g, Head(queue)), Tail(queue), indegree))

\* a sort that reports the nodes it could order and never raises
topological_sort_partial(g) ==
    LET counted(indegree) ==
            Return(Kahn(g, SelectSeq(Keys(g), LAMBDA n : indegree[n] = 0), <<>>, indegree))
    IN  IF \E k \in 1..Len(g.connections) : g.connections[k].dst_node \notin Range(Keys(g))
        THEN Raise("KeyError")
        ELSE counted([n \in Range(Keys(g)) |->
                         Cardinality({k \in 1..Len(g.connections) :
                                         g.connections[k].dst_node = n})])

topological_sort(g) ==
    LET finish(ordered) ==
            IF Len(ordered) # Len(g.nodes) THEN Raise("ValueError") ELSE Return(ordered)
        counted(indegree) ==
            finish(Kahn(g, SelectSeq(Keys(g), LAMBDA n : indegree[n] = 0), <<>>, indegree))
    IN  IF \E k \in 1..Len(g.connections) : g.connections[k].dst_node \notin Range(Keys(g))
        THEN Raise("KeyError")
        ELSE counted([n \in Range(Keys(g)) |->
                         Cardinality({k \in 1..Len(g.connections) :
                                         g.connections[k].dst_node = n})])

(***************************************************************************)
(* openvisionstudio/nodes/builtin: the compute methods of three nodes      *)
(*                                                                         *)
(* An image is the record of the operations that produced its pixels; a    *)
(* port that carries nothing holds None.  `world` says whether cv2.imread  *)
(* can read the file of an ImageLoad node during this run.                 *)
(***************************************************************************)
RECURSIVE IntStr(_)
\* str(n) for n >= 0
IntStr(n) == IF n < 10 THEN DigitStr(n) ELSE IntStr(n \div 10) \o DigitStr(n % 10)

Image(pixels) == [pixels |-> pixels]

\* mapping.get(key), None when the key is absent
DictGet(mapping, key) == IF key \in DOMAIN mapping THEN mapping[key] ELSE None

ImageLoadNode(params, world) ==
    LET read(path) ==
            IF path = "" THEN Raise("ImageLoad path is empty")
            ELSE IF ~world.readable THEN Raise("Failed to read image: " \o path)
            ELSE Return([image |-> Image(<<"imread " \o path>>)])
    IN  read(IF "path" \in DOMAIN params THEN params.path ELSE "")

BlurNode(inputs, params) ==
    LET blur(img, ksize) ==
            IF img = None THEN Raise("cv2.error")
            ELSE Return([image |-> Image(Append(img.pixels,
                            "GaussianBlur " \o IntStr(IF ksize % 2 = 0 THEN ksize + 1 ELSE ksize)))])
    IN  blur(DictGet(inputs, "image"), IF "ksize" \in DOMAIN params THEN params.ksize ELSE 5)

ThresholdNode(inputs, params) ==
    LET threshold(img, value) ==
            IF img = None THEN Raise("AttributeError")
            ELSE Return([mask |-> Image(Append(img.pixels, "threshold " \o IntStr(value)))])
    IN  threshold(DictGet(inputs, "image"), IF "value" \in DOMAIN params THEN params.value ELSE 127)

\* node_registry[type_name](node_id).compute(input_values, params, context)
compute(type_name, inputs, params, world) ==
    IF type_name = "Builtin.ImageLoad" THEN ImageLoadNode(params, world)
    ELSE IF type_name = "Builtin.Blur" THEN BlurNode(inputs, params)
    ELSE ThresholdNode(inputs, params)

(***************************************************************************)
(* openvisionstudio/engine/executor.py                                     *)
(*                                                                         *)
(* A signature is the SHA-256 digest of the canonical JSON of (node_id,    *)
(* params, upstream signatures).  Distinct data give distinct digests, so  *)
(* a digest is written as the data it was computed from; the "" that       *)
(* signatures.get(src, "") falls back to is the empty tuple.               *)
(* stop_at_node is a set: empty for None, {node_id} otherwise.             *)
(***************************************************************************)
_signature(node_id, params, upstream_sigs) == <<node_id, params, upstream_sigs>>

RECURSIVE Gather(_, _, _, _)
\* the loop over graph.upstream(node_id): input_values and upstream_sigs
Gather(conns, outputs, signatures, gathered) ==
    IF conns = <<>> THEN gathered
    ELSE LET conn == Head(conns) IN
         Gather(Tail(conns), outputs, signatures,
                [input_values |->
                     (conn.dst_port :> DictGet(IF conn.src_node \in DOMAIN outputs
                                               THEN outputs[conn.src_node] ELSE <<>>,
                                               conn.src_port))
                         @@ gathered.input_values,
                 upstream_sigs |->
                     Append(gathered.upstream_sigs,
                            IF conn.src_node \in DOMAIN signatures
                            THEN signatures[conn.src_node] ELSE <<>>)])

\* a visit that computes the node whatever the cache holds
VisitWithoutCache(node_model, gathered, world, run) ==
    LET node_id == node_model.node_id
        ran(sig, outcome) ==
            IF outcome.tag = "return"
            THEN [run EXCEPT !.signatures = (node_id :> sig) @@ @,
                             !.inputs = (node_id :> gathered.input_values) @@ @,
                             !.processed = Append(@, node_id),
                             !.computed = Append(@, node_id),
                             !.outputs = (node_id :> outcome.value) @@ @,
                             !.cache = put(@, node_id, sig, outcome.value)]
            ELSE [run EXCEPT !.signatures = (node_id :> sig) @@ @,
                             !.inputs = (node_id :> gathered.input_values) @@ @,
                             !.processed = Append(@, node_id),
                             !.computed = Append(@, node_id),
                             !.errors = (node_id :> outcome.exc) @@ @,
                             !.outputs = (node_id :> <<>>) @@ @]
    IN  ran(_signature(node_id, node_model.params, gathered.upstream_sigs),
            compute(node_model.type_name, gathered.input_values, node_model.params, world))

\* one pass of the for loop of execute, up to the stop_at_node tests
Visit(node_model, gathered, world, run) ==
    LET node_id == node_model.node_id
        ran(sig, outcome) ==
            IF outcome.tag = "return"
            THEN [run EXCEPT !.signatures = (node_id :> sig) @@ @,
                             !.inputs = (node_id :> gathered.input_values) @@ @,
                             !.processed = Append(@, node_id),
                             !.computed = Append(@, node_id),
                             !.outputs = (node_id :> outcome.value) @@ @,
                             !.cache = put(@, node_id, sig, outcome.value)]
            ELSE [run EXCEPT !.signatures = (node_id :> sig) @@ @,
                             !.inputs = (node_id :> gathered.input_values) @@ @,
                             !.processed = Append(@, node_id),
                             !.computed = Append(@, node_id),
                             !.errors = (node_id :> outcome.exc) @@ @,
                             !.outputs = (node_id :> <<>>) @@ @]
        looked(sig, cached) ==
            IF cached # None
            THEN [run EXCEPT !.signatures = (node_id :> sig) @@ @,
                             !.inputs = (node_id :> gathered.input_values) @@ @,
                             !.processed = Append(@, node_id),
                             !.outputs = (node_id :> cached) @@ @]
            ELSE ran(sig, compute(node_model.type_name, gathered.input_values,
                                  node_model.params, world))
        signed(sig) == looked(sig, get(run.cache, node_id, sig))
    IN  signed(_signature(node_id, node_model.params, gathered.upstream_sigs))

RECURSIVE ExecuteLoop(_, _, _, _, _)
\* the for loop of execute over the nodes of `order` left to visit
ExecuteLoop(g, order, stop_at_node, world, run) ==
    IF order = <<>> THEN run
    ELSE LET after(visited) ==
                 IF Head(order) \in stop_at_node THEN visited
                 ELSE ExecuteLoop(g, Tail(order), stop_at_node, world, visited)
         IN  after(Visit(NodeOf(g, Head(order)),
                         Gather(upstream(g, Head(order)), run.outputs, run.signatures,
                                [input_values |-> <<>>, upstream_sigs |-> <<>>]),
                         world, run))

\* GraphExecutor.execute: what the call returns or raises, what it did on the
\* way (the nodes visited, the nodes computed, the inputs each was given), and
\* the cache it leaves
execute(g, entries, stop_at_node, world) ==
    LET start(order) ==
            [tag |-> "return", exc |-> "", stop_at_node |-> stop_at_node, order |-> order,
             processed |-> <<>>, computed |-> <<>>, inputs |-> <<>>, signatures |-> <<>>,
             outputs |-> <<>>, errors |-> <<>>, cache |-> entries]
        sorted(order) ==
            IF order.tag = "raise"
            THEN [start(<<>>) EXCEPT !.tag = "raise", !.exc = order.exc]
            ELSE ExecuteLoop(g, order.value, stop_at_node, world, start(order.value))
    IN  sorted(topological_sort(g))

(***************************************************************************)
(* openvisionstudio/ui: the node editor, one graph and one executor        *)
(***************************************************************************)
\* project files a user may open
Projects ==
    {GraphModel(<<NodeModel("n1", "Builtin.ImageLoad", [path |-> "a.png"]),
                  NodeModel("n2", "Builtin.Blur", [ksize |-> 5]),
                  NodeModel("n3", "Builtin.Threshold", [value |-> 127])>>,
                <<ConnectionModel("n1", "image", "n2", "image"),
                  ConnectionModel("n2", "image", "n3", "image")>>),
     GraphModel(<<NodeModel("n1", "Builtin.ImageLoad", [path |-> "a.png"]),
                  NodeModel("n2", "Builtin.Threshold", [value |-> 127]),
                  NodeModel("n3", "Builtin.Blur", [ksize |-> 5])>>,
                <<ConnectionModel("n1", "image", "n3", "image"),
                  ConnectionModel("n3", "image", "n2", "image")>>)}

\* the values the inspector may set for the parameters of a node
ParamChoices(type_name) ==
    IF type_name = "Builtin.ImageLoad" THEN {[path |-> ""], [path |-> "a.png"]}
    ELSE IF type_name = "Builtin.Blur" THEN {[ksize |-> 5], [ksize |-> 3]}
    ELSE {[value |-> 127]}

\* the output ports a connection may start from
Ports == {"image", "mask"}

MaxConnections == 3

\* what an execute call leaves to be read of it
Executed(run) == [f \in DOMAIN run \ {"cache"} |-> run[f]]

EngineInit ==
    /\ SessionIdle
    /\ NormalizerIdle
    /\ WorkersIdle
    /\ EngineIdle

\* open_project, in an editor whose canvas is empty
OpenProject ==
    /\ graph.nodes = <<>>
    /\ \E project \in Projects : graph' = project
    /\ execution' = NoExecution
    /\ UNCHANGED <<cache, calls, got, session, normalizer, workers>>

NewProject ==
    /\ graph' = GraphModel(<<>>, <<>>)
    /\ cache' = clear(cache)
    /\ execution' = NoExecution
    /\ UNCHANGED <<calls, got, session, normalizer, workers>>

UpdateParams ==
    /\ \E i \in 1..Len(graph.nodes) :
           \E params \in ParamChoices(graph.nodes[i].type_name) :
               graph' = [graph EXCEPT !.nodes[i].params = params @@ @]
    /\ execution' = NoExecution
    /\ UNCHANGED <<cache, calls, got, session, normalizer, workers>>

ConnectNodes ==
    /\ Len(graph.connections) < MaxConnections
    /\ \E src_node \in Range(Keys(graph)), dst_node \in Range(Keys(graph)), src_port \in Ports :
           graph' = [graph EXCEPT !.connections =
                                      Append(@, ConnectionModel(src_node, src_port,
                                                                dst_node, "image"))]
    /\ execution' = NoExecution
    /\ UNCHANGED <<cache, calls, got, session, normalizer, workers>>

\* ExecuteRunnable.run for the "Run All" command
RunAll ==
    /\ \E readable \in BOOLEAN :
           LET finished(run) ==
                   /\ execution' = Executed(run)
                   /\ cache' = run.cache
           IN  finished(execute(graph, cache, {}, [readable |-> readable]))
    /\ UNCHANGED <<graph, calls, got, session, normalizer, workers>>

\* ExecuteRunnable.run for the "Run To Node" command: stop_at is the node
\* inserted last
RunToNode ==
    /\ graph.nodes # <<>>
    /\ \E readable \in BOOLEAN :
           LET finished(run) ==
                   /\ execution' = Executed(run)
                   /\ cache' = run.cache
           IN  finished(execute(graph, cache, {graph.nodes[Len(graph.nodes)].node_id},
                                [readable |-> readable]))
    /\ UNCHANGED <<graph, calls, got, session, normalizer, workers>>

EngineNext == OpenProject \/ NewProject \/ UpdateParams \/ ConnectNodes \/ RunAll \/ RunToNode

EngineSpec == EngineInit /\ [][EngineNext]_vars

(***************************************************************************)
(* openvisionstudio/ui: project files reopened in an editor that has run   *)
(*                                                                         *)
(* open_project replaces the nodes and connections of the canvas by those  *)
(* of a file and leaves the executor and its cache as they are.  The files *)
(* are revisions of one pipeline: a connection taken from another port, a  *)
(* node of another type, a connection removed.  The image file stays       *)
(* readable throughout.                                                    *)
(***************************************************************************)
\* load -> threshold -> blur, the blur reading src_port of the threshold node, which
\* has type type_name, when linked
Pipeline(type_name, src_port, linked) ==
    GraphModel(<<NodeModel("n1", "Builtin.ImageLoad", [path |-> "a.png"]),
                 NodeModel("n2", type_name, [value |-> 127]),
                 NodeModel("n3", "Builtin.Blur", [ksize |-> 5])>>,
               <<ConnectionModel("n1", "image", "n2", "image")>>
                   \o (IF linked THEN <<ConnectionModel("n2", src_port, "n3", "image")>>
                       ELSE <<>>))

Revisions ==
    {Pipeline("Builtin.Threshold", "mask", TRUE),
     Pipeline("Builtin.Threshold", "image", TRUE),
     Pipeline("Builtin.Blur", "mask", TRUE),
     Pipeline("Builtin.Threshold", "mask", FALSE)}

\* cv2.imread finds the file
Readable == [readable |-> TRUE]

\* open_project, whatever the canvas holds
ReopenProject ==
    /\ \E project \in Revisions : graph' = project
    /\ execution' = NoExecution
    /\ UNCHANGED <<cache, calls, got, session, normalizer, workers>>

\* ExecuteRunnable.run for the "Run All" command, the image file being readable
RunAllReadable ==
    /\ LET finished(run) ==
               /\ execution' = Executed(run)
               /\ cache' = run.cache
       IN  finished(execute(graph, cache, {}, Readable))
    /\ UNCHANGED <<graph, calls, got, session, normalizer, workers>>

ReopenNext == ReopenProject \/ NewProject \/ UpdateParams \/ RunAllReadable

ReopenSpec == EngineInit /\ [][ReopenNext]_vars

(***************************************************************************)
(* What the claims read                                                    *)
(***************************************************************************)
\* a request has been answered with a result record (handle_stt returned)
Answered == request # NoRequest /\ result.tag = "return"

\* the slot bag validate and build_atc_response were given for the request
MergedSlots == Merge(request.current_slots, Parsed[request.text])

\* the State of the request, or None
RequestState == get_state(request.state, request.scenario)

\* the request's (state, scenario) pair is one the scenario registry defines
Defined == RequestState # None

\* the number of required slots validate worked with
Required == Len(_expected_rules_for_state(request.state, request.scenario))

\* the readback loop ran over at least one slot whose expected_<name> was given
ReadbackRan ==
    \E n \in Range(_readback_expectations(request.state, request.scenario)) :
        ("expected_" \o n) \in DOMAIN MergedSlots

(***************************************************************************)
(* C1: the record validate returns has ok = TRUE exactly when its missing  *)
(* list and its wrong list are both empty, readback entries included.      *)
(***************************************************************************)
C1_OkIffNothingFlagged ==
    Answered =>
        (result.value.validation.ok
            <=> (Len(result.value.validation.missing) = 0
                 /\ Len(result.value.validation.wrong) = 0))

\* a verdict whose only entry is a readback mismatch of a slot that is not required
C1_Witness ==
    /\ Answered
    /\ ReadbackRan
    /\ ~result.value.validation.ok
    /\ result.value.validation.missing = <<>>
    /\ result.value.validation.wrong = <<"holding_point">>

(***************************************************************************)
(* C2: the score is within [0, 1] and is max(0, required - |missing| -     *)
(* |wrong|) / required rounded to two decimals when required > 0, and 1.0  *)
(* when required = 0; both lists are counted with their readback entries.  *)
(***************************************************************************)
\* h hundredths is c / n rounded to two decimals: the nearest hundredth, and the
\* even one of the two when c / n lies halfway between them
IsRounded(h, c, n) ==
    LET d == IF 100 * c >= h * n THEN 100 * c - h * n ELSE h * n - 100 * c IN
    /\ h \in 0..100
    /\ 2 * d <= n
    /\ 2 * d = n => h % 2 = 0

C2_ScoreFormula ==
    Answered =>
        LET v == result.value.validation
            left == Required - Len(v.missing) - Len(v.wrong)
        IN  /\ 0 <= v.score /\ v.score <= 100
            /\ Required > 0 => IsRounded(v.score, IF left > 0 THEN left ELSE 0, Required)
            /\ Required = 0 => v.score = 100

\* readback entries push |missing| + |wrong| above the number of required slots
C2_Witness ==
    /\ Answered
    /\ ReadbackRan
    /\ Required > 0
    /\ Len(result.value.validation.missing) + Len(result.value.validation.wrong) > Required
    /\ result.value.validation.score = 0

(***************************************************************************)
(* C3: advance_state returns next_states[0] exactly when the state exists  *)
(* in the scenario, validation.ok is true and next_states is not empty,    *)
(* and the current state otherwise; so the next state is the current state *)
(* or one of its next_states.                                              *)
(***************************************************************************)
C3_AdvanceRule ==
    Answered =>
        LET advances == /\ Defined
                        /\ result.value.validation.ok
                        /\ RequestState.next_states # <<>>
        IN  /\ advances => result.value.next_state = RequestState.next_states[1]
            /\ ~advances => result.value.next_state = request.state
            /\ \/ result.value.next_state = request.state
               \/ Defined /\ result.value.next_state \in Range(RequestState.next_states)

C3_Witness ==
    /\ Answered
    /\ result.value.validation.ok
    /\ result.value.next_state # request.state

(***************************************************************************)
(* C4: no slot name is in both the missing list and the wrong list of a    *)
(* validation, for scenario and legacy states, with or without readback.   *)
(***************************************************************************)
C4_MissingWrongDisjoint ==
    Answered =>
        Range(result.value.validation.missing) \cap Range(result.value.validation.wrong) = {}

\* readback ran and the verdict has entries in both lists
C4_Witness ==
    /\ Answered
    /\ ReadbackRan
    /\ result.value.validation.missing # <<>>
    /\ result.value.validation.wrong # <<>>

(***************************************************************************)
(* C5 (as stated): in a scenario state, a slot bag whose required slots    *)
(* all pass their slot validators makes one validate + advance_state call  *)
(* advance to the state's first successor.                                 *)
(***************************************************************************)
\* the slot validator of validate's first loop accepts the value of slot `name`
SlotPasses(name, slots) ==
    /\ ~IsBlank(slots, name)
    /\ name = "runway" =>
          _runway_matches(IF "expected_runway" \in DOMAIN slots
                          THEN slots["expected_runway"] ELSE slots[name], slots[name])
    /\ name = "qnh" => _qnh_valid(slots[name])
    /\ name = "wind" => _wind_valid(slots[name])
    /\ name = "time" => _time_valid(slots[name])
    /\ name = "sector" => _sector_valid(slots[name])

RequiredPass == \A name \in Range(RequestState.required_slots) : SlotPasses(name, MergedSlots)

\* every readback slot of the state whose expected_<name> is in the bag has a
\* non-blank value equal to it after trim and lowercase
ReadbackPass ==
    \A name \in Range(_readback_expectations(request.state, request.scenario)) :
        ("expected_" \o name) \in DOMAIN MergedSlots =>
            /\ ~IsBlank(MergedSlots, name)
            /\ Lower(Strip(MergedSlots["expected_" \o name])) = Lower(Strip(MergedSlots[name]))

C5_AsStated ==
    (Answered /\ Defined /\ RequiredPass) =>
        /\ RequestState.next_states # <<>>
        /\ result.value.next_state = RequestState.next_states[1]

(***************************************************************************)
(* C5 (amended): in a scenario state that has a successor, a slot bag      *)
(* whose required slots all pass their slot validators and whose readback  *)
(* checks all pass makes one validate + advance_state call advance to the  *)
(* state's first successor.                                                *)
(***************************************************************************)
C5_AdvancesOneStep ==
    (Answered /\ Defined /\ RequiredPass /\ ReadbackPass /\ RequestState.next_states # <<>>) =>
        result.value.next_state = RequestState.next_states[1]

\* a readback state advanced with an expectation in the bag that the readback met
C5_Witness ==
    /\ Answered /\ Defined /\ RequiredPass /\ ReadbackPass
    /\ ReadbackRan
    /\ RequestState.next_states # <<>>
    /\ result.value.next_state = RequestState.next_states[1]
    /\ result.value.next_state # request.state

(***************************************************************************)
(* C6: in scenario graz_vfr_sector_e, when every request carries the       *)
(* next_state of the answer before it, each step keeps the dialog state or *)
(* moves it one state forward along the chain initial_call ... end; no     *)
(* earlier state is entered again and end is never left.                   *)
(***************************************************************************)
Chain ==
    <<"initial_call", "taxi_request", "taxi_clearance", "intermediate_hold", "taxi_continue",
      "departure_instructions", "lineup_wait", "takeoff_clearance", "airborne_time",
      "qnh_update", "leave_sector", "frequency_change", "end">>

Rank(st) == CHOOSE i \in 1..Len(Chain) : Chain[i] = st

C6_NeverRegresses ==
    [][(scenario = "graz_vfr_sector_e" /\ state \in Range(Chain)) =>
          /\ state' \in Range(Chain)
          /\ Rank(state') \in {Rank(state), Rank(state) + 1}
          /\ state = "end" => state' = "end"]_vars

\* the dialog has just moved from frequency_change on to end
C6_Witness ==
    /\ Answered
    /\ request.scenario = "graz_vfr_sector_e"
    /\ request.state = "frequency_change"
    /\ result.value.next_state = "end"

(***************************************************************************)
(* C7: in every registered scenario, every name in a state's next_states   *)
(* is a state of the same scenario, exactly one state has no next_states,  *)
(* and at least one state has no incoming edge.                            *)
(***************************************************************************)
WellFormed(states) ==
    LET incoming(n) == \E m \in DOMAIN states : n \in Range(states[m].next_states) IN
    /\ \A n \in DOMAIN states : Range(states[n].next_states) \subseteq DOMAIN states
    /\ Cardinality({n \in DOMAIN states : states[n].next_states = <<>>}) = 1
    /\ \E n \in DOMAIN states : ~incoming(n)

\* the registry is read in every state of a session: all registered scenarios,
\* the session's own among them
C7_RegistryWellFormed ==
    \A id \in DOMAIN SCENARIOS \cup {scenario} :
        id \in DOMAIN SCENARIOS => WellFormed(SCENARIOS[id])

\* a request in the terminal state of a registered scenario has been answered
C7_Witness ==
    /\ Answered
    /\ Defined
    /\ RequestState.next_states = <<>>
    /\ result.value.next_state = request.state

(***************************************************************************)
(* C8 (as stated): for a (state, scenario) pair the registry does not      *)
(* define, validate returns ok = true, missing = [], wrong = [] with the   *)
(* reason 'no expectations configured for state', and advance_state        *)
(* returns the current state.                                              *)
(***************************************************************************)
NoExpectationsVerdict ==
    /\ result.value.validation.ok
    /\ result.value.validation.missing = <<>>
    /\ result.value.validation.wrong = <<>>
    /\ "no expectations configured for state" \in Range(result.value.validation.reasons)

EnvOff == Env("", "", Reply("exception", FALSE, ""))

\* what handle_stt returns for the same request with the renderer off
Deterministic ==
    handle_stt(request.text, request.state, request.current_slots, request.scenario, EnvOff).value

C9_RendererNeverDecides ==
    request # NoRequest =>
        /\ result.tag = "return"
        /\ result.value.validation = Deterministic.validation
        /\ result.value.next_state = Deterministic.next_state
        /\ result.value.atc_response.reason = Deterministic.atc_response.reason

(***************************************************************************)
(* C10: with external rendering enabled, a failure of the renderer (no     *)
(* connection, timeout, a body that is not JSON, a JSON body of any shape, *)
(* no or empty text) is not an error of build_atc_response: the            *)
(* deterministic text is returned with renderer = 'deterministic'.         *)
(***************************************************************************)
\* the POST was made and did not yield a non-empty text
RendererFailed(env) ==
    /\ RendererEnabled(env)
    /\ HasScheme(env.endpoint)
    /\ ~(env.reply.kind = "object" /\ env.reply.has_text /\ env.reply.text # "")

C10_FailureFallsBack ==
    (request # NoRequest /\ RendererFailed(request.env)) =>
        /\ result.tag = "return"
        /\ result.value.atc_response.text = Deterministic.atc_response.text
        /\ result.value.atc_response.renderer = "deterministic"

(***************************************************************************)
(* C11: handle_stt is never run on empty or whitespace-only text: POST     *)
(* /stt answers such a text with 400 'text must not be empty', and POST    *)
(* /stt/audio never hands handle_stt an empty or whitespace-only           *)
(* transcript.  (handle_stt echoes the text it was given as `text`.)       *)
(***************************************************************************)
C11_NeverRunsOnBlankText ==
    /\ (request # NoRequest /\ request.endpoint = "/stt" /\ Strip(request.text) = "") =>
           result = HTTPException(400, "text must not be empty")
    /\ (request # NoRequest /\ result.tag = "return") => Strip(result.value.text) # ""


(***************************************************************************)
(* C12: normalize_icao terminates and returns a NormalizationResult for    *)
(* every input, the empty one included: every pass of the rewrite loop     *)
(* moves the cursor forward, by 1 or, for a flight-level match, past all   *)
(* the tokens it consumed, and never beyond the end of the tokens; with    *)
(* the cursor at the end the call returns its result.  (The distance of    *)
(* the cursor to the end is a variant of the loop: it takes at most        *)
(* len(tokens) passes.)                                                    *)
(***************************************************************************)
C12_NormalizeTerminates ==
    [][(loop # NoCall /\ loop.returned = None) =>
           IF loop.acc.idx > Len(loop.tokens)
           THEN loop'.returned = normalize_icao(loop.raw_text)
           ELSE /\ loop'.returned = None
                /\ loop'.acc.idx > loop.acc.idx
                /\ loop'.acc.idx <= Len(loop.tokens) + 1
                /\ \/ loop'.acc.idx = loop.acc.idx + 1
                   \/ /\ loop.tokens[loop.acc.idx] = "flight"
                      /\ loop'.acc.idx = NumberRunEnd(loop.tokens, loop.acc.idx + 2)]_vars

\* a call has returned whose loop went past the three tokens of a flight level in
\* one pass
C12_Witness ==
    /\ loop # NoCall
    /\ loop.returned # None
    /\ Len(loop.tokens) = 3
    /\ Len(loop.returned.tokens) = 1
    /\ loop.returned.tokens[1].kind = "flight_level"

(***************************************************************************)
(* C13: for every input t, the raw fields of the tokens normalize_icao     *)
(* returns, in order, are the [a-z0-9]+ matches of lowercased t: no input  *)
(* token is dropped, merged or duplicated in raw.                          *)
(***************************************************************************)
C13_RawIsTokenization ==
    (loop # NoCall /\ loop.returned # None) =>
        Raws(loop.returned.tokens) = FindAll(Lower(loop.raw_text))

(***************************************************************************)
(* C14: handle_stt shares no mutable state between requests: no step of it *)
(* changes the mapping the caller passed as current_slots (nor the         *)
(* process environment; the scenario registry is data nothing assigns      *)
(* to), so under every interleaving of concurrent invocations each one     *)
(* returns exactly what it returns when run alone.                         *)
(***************************************************************************)
C14_NoSharedMutableState ==
    /\ [][caller_slots' = caller_slots /\ environ' = environ]_vars
    /\ [](\A i \in DOMAIN frames :
             frames[i].pc = "done" =>
                 frames[i].returned = handle_stt(frames[i].stt_text, frames[i].state,
                                                 caller_slots, frames[i].scenario, environ))

\* two invocations were given the same mapping, both overrode its qnh in their own
\* copy, and the second returned while the first was still between merge and return
C14_Witness ==
    /\ caller_slots # <<>>
    /\ frames # <<>>
    /\ frames[1].pc = "advance"
    /\ frames[2].pc = "done"
    /\ frames[1].merged_slots["qnh"] = "950"
    /\ frames[2].returned.tag = "return"
    /\ frames[2].returned.value.slots # <<>>
    /\ caller_slots["qnh"] = "1013"

\* the literal request of end-to-end scenario 1 has been answered with a response
Scenario1Answered ==
    /\ request # NoRequest
    /\ request.endpoint = "/stt"
    /\ request.text = "Delta alpha bravo charlie runway two seven left"
    /\ request.state = "taxi"
    /\ request.scenario = "graz_vfr_sector_e"
    /\ request.current_slots = <<>>
    /\ result.tag = "return"

Scenario2Answered ==
    /\ request # NoRequest
    /\ request.endpoint = "/stt"
    /\ request.text = "Flight level one zero zero"
    /\ request.state = "airborne_time"
    /\ request.scenario = "graz_vfr_sector_e"
    /\ request.current_slots = <<>>
    /\ result.tag = "return"

\* C16: end-to-end scenario 2 (text 'Flight level one zero zero', state
\* 'airborne_time', no current_slots) returns normalized 'FL100', a flight_level
\* slot 'FL100', validation.missing = [callsign, time, sector] and next_state
\* 'airborne_time'; the flight-level token is not extracted as a callsign.
C16_Scenario2 ==
    Scenario2Answered =>
        /\ result.value.normalized = "FL100"
        /\ "flight_level" \in DOMAIN result.value.slots
        /\ result.value.slots["flight_level"].value = "FL100"
        /\ result.value.validation.missing = <<"callsign", "time", "sector">>
        /\ result.value.next_state = "airborne_time"
        /\ "callsign" \notin DOMAIN result.value.slots

\* the literal request of end-to-end scenario 6 has been answered with a response
Scenario6Answered ==
    /\ request # NoRequest
    /\ request.endpoint = "/stt"
    /\ request.text = "QNH 950"
    /\ request.state = "clearance"
    /\ request.scenario = "graz_vfr_sector_e"
    /\ request.current_slots = [callsign |-> "DLH1", destination |-> "EDDF", runway |-> "27"]
    /\ result.tag = "return"

RECURSIVE Remembered(_, _, _)
\* what the calls made so far leave to be returned for (node_id, signature): the
\* outputs of the latest put for node_id when it used this signature and neither
\* invalidate(node_id) nor clear came after it, and None otherwise
Remembered(log, node_id, signature) ==
    IF log = <<>> THEN None
    ELSE LET last == log[Len(log)] IN
         IF last.op = "clear" THEN None
         ELSE IF last.node_id # node_id
         THEN Remembered(SubSeq(log, 1, Len(log) - 1), node_id, signature)
         ELSE IF last.op = "invalidate" THEN None
         ELSE IF last.signature = signature THEN last.outputs
         ELSE None

\* C18: after any sequence of put, invalidate and clear calls, get(node_id,
\* signature) returns the outputs of the most recent put for node_id if that put
\* used the same signature and no invalidate(node_id) or clear happened since,
\* and None in every other case; a put or invalidate on one node id never
\* changes what get returns for another node id.
C18_CacheRemembersLatestPut ==
    /\ [](\A node_id \in CacheNodeIds, signature \in Signatures :
              get(cache, node_id, signature) = Remembered(calls, node_id, signature))
    /\ [](got # NoGet => got.value = Remembered(calls, got.node_id, got.signature))
    /\ [][\A other \in CacheNodeIds, signature \in Signatures :
              (calls' # calls /\ calls'[Len(calls')].op # "clear"
                              /\ calls'[Len(calls')].node_id # other) =>
                  get(cache', other, signature) = get(cache, other, signature)]_vars

C18_Witness ==
    /\ Len(calls) = 3
    /\ calls[1] = [op |-> "put", node_id |-> "n1", signature |-> "abc", outputs |-> [image |-> 1]]
    /\ calls[2] = [op |-> "put", node_id |-> "n2", signature |-> "abc", outputs |-> <<>>]
    /\ calls[3].op = "put" /\ calls[3].node_id = "n1" /\ calls[3].signature = "xyz"
    /\ got # NoGet /\ got.node_id = "n1" /\ got.signature = "abc" /\ got.value = None

\* the step is an execute call on a graph that is as it was when the previous
\* execute call visited every node and every node succeeded
RerunAfterSuccess ==
    /\ execution # NoExecution
    /\ execution.tag = "return"
    /\ execution.errors = <<>>
    /\ Range(execution.processed) = Range(Keys(graph))
    /\ graph' = graph
    /\ execution' # NoExecution

\* the nodes of `order` up to the first one stop_at_node names, all when it names none
UpToStop(order, stop_at_node) ==
    IF \E k \in 1..Len(order) : order[k] \in stop_at_node
    THEN SubSeq(order, 1, CHOOSE k \in 1..Len(order) :
                              /\ order[k] \in stop_at_node
                              /\ \A j \in 1..(k - 1) : order[j] \notin stop_at_node)
    ELSE order

\* C19 as stated: when the executor executes a graph whose nodes, params and
\* connections are unchanged since a previous execute in which every node
\* succeeded, no compute is invoked again and the result outputs equal those of
\* the previous execution.
C19_AsStated ==
    [][RerunAfterSuccess =>
           /\ execution'.computed = <<>>
           /\ execution'.outputs = execution.outputs]_vars

\* C19: on such a rerun no compute is invoked, no error is reported, and the
\* result holds the previous outputs of exactly the nodes the call visits: every
\* node when stop_at_node is None, and the nodes up to stop_at_node in
\* topological order otherwise.
C19_CachingPreventsRecompute ==
    [][RerunAfterSuccess =>
           /\ execution'.tag = "return"
           /\ execution'.computed = <<>>
           /\ execution'.errors = <<>>
           /\ execution'.processed = UpToStop(execution.order, execution'.stop_at_node)
           /\ DOMAIN execution'.outputs = Range(execution'.processed)
           /\ \A n \in DOMAIN execution'.outputs : execution'.outputs[n] = execution.outputs[n]
           /\ execution'.stop_at_node = {} => execution'.outputs = execution.outputs
           /\ cache' = cache]_vars

C19_Witness ==
    /\ execution # NoExecution
    /\ execution.tag = "return"
    /\ execution.stop_at_node = {}
    /\ execution.processed = <<"n1", "n3", "n2">>
    /\ execution.computed = <<>>
    /\ execution.outputs["n2"].mask.pixels = <<"imread a.png", "GaussianBlur 3", "threshold 127">>

\* the latest execute call returned a result
Returned == execution # NoExecution /\ execution.tag = "return"

\* no node id occurs twice in the sequence
NoRepeats(seq) == \A i, j \in 1..Len(seq) : seq[i] = seq[j] => i = j

\* the position of a node in the sequence of visited nodes, 0 when not visited
Position(seq, node_id) ==
    IF \E k \in 1..Len(seq) : seq[k] = node_id
    THEN CHOOSE k \in 1..Len(seq) : seq[k] = node_id
    ELSE 0

RECURSIVE Reaches(_, _, _)
\* the node ids reached from a node along at most n connections
Reaches(g, from, n) ==
    IF n = 0 THEN {from}
    ELSE LET near == Reaches(g, from, n - 1) IN
         near \cup {g.connections[k].dst_node :
                       k \in {k \in 1..Len(g.connections) : g.connections[k].src_node \in near}}

HasCycle(g) ==
    \E k \in 1..Len(g.connections) :
        g.connections[k].src_node \in Reaches(g, g.connections[k].dst_node, Len(g.nodes))

\* every visited node was visited after the source of each connection into it,
\* and each of its input ports was given what the last connection into the port
\* carries: the output of the source's port in this run, None when the source
\* has no such output
VisitedInOrder ==
    \A i \in 1..Len(execution.processed) :
        LET node_id == execution.processed[i]
            into == upstream(graph, node_id)
        IN  /\ \A k \in 1..Len(into) :
                   /\ Position(execution.processed, into[k].src_node) \in 1..(i - 1)
                   /\ (\A j \in (k + 1)..Len(into) : into[j].dst_port # into[k].dst_port) =>
                          execution.inputs[node_id][into[k].dst_port] =
                              DictGet(execution.outputs[into[k].src_node], into[k].src_port)
            /\ DOMAIN execution.inputs[node_id] = {into[k].dst_port : k \in 1..Len(into)}

\* C20 as stated: execute processes nodes in a topological order: every node is
\* processed exactly once per call and only after all nodes with a connection
\* into it have been processed, so each input port receives its upstream node's
\* output of this run; if the graph contains a cycle, topological_sort raises
\* ValueError and no node is computed.
C20_AsStated ==
    execution # NoExecution =>
        /\ Returned =>
               /\ NoRepeats(execution.processed)
               /\ Range(execution.processed) = Range(Keys(graph))
               /\ VisitedInOrder
        /\ HasCycle(graph) =>
               /\ execution.tag = "raise"
               /\ execution.exc = "ValueError"
               /\ execution.computed = <<>>

\* C20: execute processes nodes in a topological order: no node is processed
\* twice, every node is processed when stop_at_node is None and otherwise the
\* nodes up to and including stop_at_node, each only after all nodes with a
\* connection into it, and each input port receives what the last connection
\* into it carries of this run; if the graph contains a cycle,
\* topological_sort raises ValueError, no node is computed and the cache is
\* untouched.
C20_TopologicalExecution ==
    /\ [](execution # NoExecution =>
              /\ Returned =>
                     /\ NoRepeats(execution.processed)
                     /\ Range(execution.order) = Range(Keys(graph))
                     /\ execution.processed = UpToStop(execution.order, execution.stop_at_node)
                     /\ VisitedInOrder
              /\ HasCycle(graph) =>
                     /\ execution.tag = "raise"
                     /\ execution.exc = "ValueError"
                     /\ execution.processed = <<>>
                     /\ execution.computed = <<>>)
    /\ [][(HasCycle(graph) /\ execution' # NoExecution /\ graph' = graph) => cache' = cache]_vars

C20_Witness ==
    /\ Returned
    /\ Len(graph.connections) = 3
    /\ graph.connections[3] = ConnectionModel("n1", "image", "n2", "image")
    /\ execution.processed = <<"n1", "n3", "n2">>
    /\ execution.computed = <<"n2">>
    /\ execution.inputs["n2"] = [image |-> Image(<<"imread a.png">>)]

(***************************************************************************)
(* C21: build_atc_response chooses its branch by strict priority.  With    *)
(* validation.missing non-empty the text is the prompt for missing[0] (its *)
(* entry in the prompt table, else 'report <slot>') and the reason is      *)
(* missing_slot; else with validation.wrong non-empty the text is          *)
(* 'confirm <wrong[0]>' and the reason is wrong_slot; else, when the state *)
(* exists and has templates, the deterministic text is templates[0]        *)
(* rendered with the merged slots and the reason is template; else the     *)
(* deterministic text is 'roger' and the reason is default.                *)
(***************************************************************************)
\* the reply of the request just answered
AtcResponse == result.value.atc_response

\* the text of the reply when no external renderer replaced it
DeterministicText(text) == AtcResponse.renderer = "deterministic" /\ AtcResponse.text = text

RECURSIVE Placeholders(_)
\* the slot names a template mentions
Placeholders(template) ==
    LET open == Find(template, "{")
        rest == SubSeq(template, open + 1, Len(template))
        close == Find(rest, "}")
    IN  IF open = 0 THEN {}
        ELSE {SubSeq(rest, 1, close - 1)}
                 \cup Placeholders(SubSeq(rest, close + 1, Len(rest)))

\* the template of the state of the request just answered
Template == RequestState.atc_templates[1]

\* the request was answered from the template by the deterministic renderer
TemplateAnswer ==
    /\ Answered
    /\ AtcResponse.reason = "template"
    /\ AtcResponse.renderer = "deterministic"

C22_AsStated ==
    TemplateAnswer => AtcResponse.text = _render_template_partial(Template, MergedSlots)

C22_TemplateAllOrNothing ==
    TemplateAnswer =>
        AtcResponse.text =
            IF Placeholders(Template) \subseteq DOMAIN MergedSlots
            THEN _render_template_partial(Template, MergedSlots)
            ELSE Template

\* a template with one slot present and one absent is returned unchanged
C22_Witness ==
    /\ TemplateAnswer
    /\ Placeholders(Template) \cap DOMAIN MergedSlots # {}
    /\ Placeholders(Template) \ DOMAIN MergedSlots # {}
    /\ AtcResponse.text = Template

(***************************************************************************)
(* C23: the readback check.  In a state defined in the scenario with       *)
(* readback_required, each readback slot whose expected_<name> is in the   *)
(* slot bag is appended to missing when its actual value is absent or      *)
(* blank, and otherwise to wrong when expected and actual differ after     *)
(* trimming and lowercasing.  A slot without expected_<name>, a state      *)
(* without readback_required and a state the scenario does not define add  *)
(* nothing: missing and wrong are then those of the required-slot rules.   *)
(***************************************************************************)
\* the slots the readback step looks at
ReadbackSlots ==
    IF Defined /\ RequestState.readback_required THEN RequestState.readback_slots ELSE <<>>

Expected(name) == "expected_" \o name

ReadbackMissing(name) ==
    /\ Expected(name) \in DOMAIN MergedSlots
    /\ (name \notin DOMAIN MergedSlots \/ Strip(MergedSlots[name]) = "")

ReadbackWrong(name) ==
    /\ Expected(name) \in DOMAIN MergedSlots
    /\ ~ReadbackMissing(name)
    /\ Lower(Strip(MergedSlots[Expected(name)])) # Lower(Strip(MergedSlots[name]))

\* the verdict lists after the loop over the required-slot rules
RulesVerdict ==
    RuleLoop(_expected_rules_for_state(request.state, request.scenario), MergedSlots,
             [missing |-> <<>>, wrong |-> <<>>, reasons |-> <<>>])

C23_ReadbackCheck ==
    Answered =>
        /\ result.value.validation.missing =
               RulesVerdict.missing \o SelectSeq(ReadbackSlots, ReadbackMissing)
        /\ result.value.validation.wrong =
               RulesVerdict.wrong \o SelectSeq(ReadbackSlots, ReadbackWrong)

\* a readback with both a missing and a mismatching slot, the latter not the
\* first readback slot of the state
C23_Witness ==
    /\ Answered
    /\ SelectSeq(ReadbackSlots, ReadbackMissing) # <<>>
    /\ SelectSeq(Tail(ReadbackSlots), ReadbackWrong) # <<>>

(***************************************************************************)
(* C24: the homophone 'for' is rewritten to the digit 4 only when the      *)
(* token before it or the token after it is number-ish (a decimal string   *)
(* or a key of NUMBER_WORDS): it is then emitted as a number token with    *)
(* confidence 0.75 and one confidence hint is recorded for it.  With no    *)
(* number-ish neighbour, 'for' is emitted unchanged as a word token with   *)
(* confidence 1.0 and no hint.                                             *)
(***************************************************************************)
\* the pass just made was at the token 'for' and emitted a token for it
ForEmitted ==
    /\ loop # NoCall
    /\ loop.returned = None
    /\ loop.acc.idx > 1
    /\ loop.tokens[loop.acc.idx - 1] = "for"
    /\ loop.acc.tokens[Len(loop.acc.tokens)].raw = "for"

\* the token before or after position i is number-ish
NumberNeighbour(tokens, i) ==
    \/ i > 1 /\ _is_number_token(tokens[i - 1])
    \/ i < Len(tokens) /\ _is_number_token(tokens[i + 1])

\* the hints recorded for rewrites of 'for', and the rewrites of 'for' emitted
ForHints == SelectSeq(loop.acc.hints, LAMBDA hint : hint = "context-normalized 'for' -> '4'")

ForRewrites ==
    SelectSeq(loop.acc.tokens, LAMBDA t : t = Token("for", "4", "number", <<3, 4>>))

C24_ForOnlyNextToNumbers ==
    ForEmitted =>
        /\ Len(ForHints) = Len(ForRewrites)
        /\ loop.acc.tokens[Len(loop.acc.tokens)] =
               IF NumberNeighbour(loop.tokens, loop.acc.idx - 1)
               THEN Token("for", "4", "number", <<3, 4>>)
               ELSE Token("for", "for", "word", <<1, 1>>)

(***************************************************************************)
(* C25: the flight-level rule.  As stated, whenever the cursor is at       *)
(* 'flight' immediately followed by 'level', the pass emits exactly one    *)
(* flight-level token with normalized 'FL' + the digits of the zero or     *)
(* more number-ish tokens that follow and confidence 1.0, and moves the    *)
(* cursor past 'flight', 'level' and those tokens, before any other rule   *)
(* is tried.  The code does so when at least one number-ish token follows  *)
(* 'level'; with none, the rule does not apply and 'flight' is emitted by  *)
(* the later rules, as a word, with the cursor moved by one.               *)
(***************************************************************************)
\* the cursor is at 'flight' immediately followed by 'level'
AtFlightLevel ==
    /\ loop # NoCall
    /\ loop.returned = None
    /\ loop.acc.idx < Len(loop.tokens)
    /\ loop.tokens[loop.acc.idx] = "flight"
    /\ loop.tokens[loop.acc.idx + 1] = "level"

\* the number-ish tokens after 'level'
LevelRun ==
    SubSeq(loop.tokens, loop.acc.idx + 2, NumberRunEnd(loop.tokens, loop.acc.idx + 2) - 1)

RECURSIVE SpokenDigits(_)
\* the digits a run of number-ish tokens stands for
SpokenDigits(run) ==
    IF run = <<>> THEN ""
    ELSE (IF Head(run) \in DOMAIN NUMBER_WORDS THEN NUMBER_WORDS[Head(run)] ELSE Head(run))
             \o SpokenDigits(Tail(run))

\* the pass emits one flight-level token for 'flight', 'level' and the run
EmitsFlightLevel ==
    /\ Len(loop'.acc.tokens) = Len(loop.acc.tokens) + 1
    /\ SubSeq(loop'.acc.tokens, 1, Len(loop.acc.tokens)) = loop.acc.tokens
    /\ LET emitted == loop'.acc.tokens[Len(loop'.acc.tokens)] IN
           /\ emitted.kind = "flight_level"
           /\ emitted.normalized = "FL" \o SpokenDigits(LevelRun)
           /\ emitted.confidence = <<1, 1>>
    /\ loop'.acc.idx = loop.acc.idx + 2 + Len(LevelRun)
    /\ loop'.acc.hints = loop.acc.hints

C25_AsStated == [][AtFlightLevel => EmitsFlightLevel]_vars

C25_FlightLevelNeedsDigits ==
    [][AtFlightLevel =>
           IF LevelRun # <<>> THEN EmitsFlightLevel
           ELSE /\ loop'.acc.tokens =
                       Append(loop.acc.tokens, Token("flight", "flight", "word", <<1, 1>>))
                /\ loop'.acc.idx = loop.acc.idx + 1
                /\ loop'.acc.hints = loop.acc.hints]_vars

\* the pass at 'flight' has emitted the flight level of a spoken digit
C25_Witness ==
    /\ loop # NoCall
    /\ loop.tokens = <<"flight", "level", "one">>
    /\ loop.acc.idx = 4
    /\ Len(loop.acc.tokens) = 1
    /\ loop.acc.tokens[1].normalized = "FL1"

(***************************************************************************)
(* C26: normalized_text is the normalized fields of the tokens joined by   *)
(* single spaces, except that a NATO token is appended without a space     *)
(* exactly when the text emitted so far ends in an uppercase ASCII letter, *)
(* which is exactly when the token immediately before it is a NATO token   *)
(* too.  No other two adjacent tokens are joined without a space: a NATO   *)
(* token after a flight level, a number, a decimal string or a word stays  *)
(* apart.                                                                  *)
(***************************************************************************)
\* token i is a NATO token right after a NATO token
AfterNato(tokens, i) == i > 1 /\ tokens[i].kind = "nato" /\ tokens[i - 1].kind = "nato"

RECURSIVE TextUpTo(_, _)
\* the text of tokens[1..i], with a space before every token but the first and
\* those right after a NATO token that are NATO tokens themselves
TextUpTo(tokens, i) ==
    IF i = 0 THEN ""
    ELSE TextUpTo(tokens, i - 1)
             \o (IF i = 1 \/ AfterNato(tokens, i) THEN "" ELSE " ")
             \o tokens[i].normalized

EndsInUpper(text) == text # "" /\ Char(text, Len(text)) \in CharSet(UpperChars)

\* a call of normalize_icao has returned
Returned_icao == loop # NoCall /\ loop.returned # None

Parsed_callsign == parsing # NoCall /\ parsing.returned # NoResult

\* token i alone, or joined to the next one by a hyphen, is a callsign
AloneAt(tokens, i) == CALLSIGN_RE(tokens[i].normalized)

PairAt(tokens, i) ==
    i < Len(tokens) /\ CALLSIGN_RE(tokens[i].normalized \o "-" \o tokens[i + 1].normalized)

\* tokens[a..b] is a maximal run of NATO tokens
MaximalRun(tokens, a, b) ==
    /\ a <= b
    /\ \A i \in a..b : tokens[i].kind = "nato"
    /\ a = 1 \/ tokens[a - 1].kind # "nato"
    /\ b = Len(tokens) \/ tokens[b + 1].kind # "nato"

\* the starts of the maximal runs of 3 to 7 NATO tokens
UsableRuns(tokens) ==
    {a \in 1..Len(tokens) : \E b \in (a + 2)..(a + 6) :
        b <= Len(tokens) /\ MaximalRun(tokens, a, b)}

\* what the claim has parse_callsign return from the run starting at a
FromRun(tokens, a) ==
    LET b == CHOOSE b \in a..Len(tokens) : MaximalRun(tokens, a, b)
        run == SubSeq(tokens, a, b)
        letters == ConcatNormalized(run)
        cut == IF Len(run) <= 6 THEN 1 ELSE 2
    IN  ParsedSlot("callsign",
                   SubSeq(letters, 1, cut) \o "-" \o SubSeq(letters, cut + 1, Len(letters)),
                   MinConfidence(run), Raws(run))

\* what the claim has parse_callsign return for tokens
ClaimedCallsign(tokens) ==
    LET hits == {i \in 1..Len(tokens) : AloneAt(tokens, i) \/ PairAt(tokens, i)}
        first == Min(hits)
    IN  IF hits # {}
        THEN IF AloneAt(tokens, first)
             THEN ParsedSlot("callsign", tokens[first].normalized, tokens[first].confidence,
                             <<tokens[first].raw>>)
             ELSE ParsedSlot("callsign",
                             tokens[first].normalized \o "-" \o tokens[first + 1].normalized,
                             FracMin(tokens[first].confidence, tokens[first + 1].confidence),
                             <<tokens[first].raw, tokens[first + 1].raw>>)
        ELSE IF UsableRuns(tokens) # {} THEN FromRun(tokens, Min(UsableRuns(tokens)))
        ELSE None

C27_CallsignPaths == Parsed_callsign => parsing.returned = ClaimedCallsign(parsing.tokens)

\* after a run of 8 letters, which gives nothing, a run of 7 with a fuzzy match
\* gives XY-REST
C27_Witness ==
    /\ Parsed_callsign
    /\ Len(parsing.tokens) = 16
    /\ parsing.tokens[1] = FuzzyToken
    /\ parsing.returned # None
    /\ parsing.returned.value = "CE-FGHIJ"
    /\ parsing.returned.confidence = <<1, 1>>

(***************************************************************************)
(* C28: as stated, in every validation result each slot name occurs at     *)
(* most once in missing and at most once in wrong, also for a slot that is *)
(* both a required and a readback slot of the state.  The code appends to  *)
(* the same two lists in the required-slot loop and in the readback loop:  *)
(* a name occurs at most once per loop, hence at most twice in a list, and *)
(* twice only for a slot that is required and a readback slot whose        *)
(* expected_<name> is given.                                               *)
(***************************************************************************)
\* how often name occurs in list
Occurrences(list, name) == Cardinality({i \in 1..Len(list) : list[i] = name})

\* the slot is checked by both loops of validate
CheckedTwice(name) ==
    /\ name \in Range(_expected_rules_for_state(request.state, request.scenario))
    /\ name \in Range(ReadbackSlots)
    /\ Expected(name) \in DOMAIN MergedSlots

C28_AsStated ==
    Answered =>
        /\ NoRepeats(result.value.validation.missing)
        /\ NoRepeats(result.value.validation.wrong)

C28_AtMostOncePerLoop ==
    Answered =>
        \A list \in {result.value.validation.missing, result.value.validation.wrong} :
            \A name \in Range(list) :
                /\ Occurrences(list, name) <= 2
                /\ Occurrences(list, name) = 2 => CheckedTwice(name)

\* a required slot that fails its rule and its readback is in wrong twice, and
\* the score falls by two rules' worth
C28_Witness ==
    /\ Answered
    /\ Required = 2
    /\ result.value.validation.missing = <<>>
    /\ Len(result.value.validation.wrong) = 2
    /\ result.value.validation.wrong[1] = result.value.validation.wrong[2]
    /\ result.value.validation.score = 0

(***************************************************************************)
(* C29: the slot bag handle_stt validates and renders the reply with is    *)
(* current_slots overridden by the slots parsed from the utterance: a      *)
(* parsed value replaces the caller's value of the same name, every other  *)
(* key of the caller, the expected_<name> keys included, is passed on      *)
(* unchanged, and the 'slots' field returned holds the parsed slots only.  *)
(***************************************************************************)
\* the bag the claim has handle_stt use
OverriddenBag ==
    LET parsed == Parsed[request.text] IN
    [name \in DOMAIN request.current_slots \cup DOMAIN parsed |->
        IF name \in DOMAIN parsed THEN parsed[name].value ELSE request.current_slots[name]]

C29_ParsedOverridesCaller ==
    Answered =>
        /\ result.value.validation =
               validate(request.state, OverriddenBag, result.value.normalized, request.scenario)
        /\ result.value.atc_response =
               build_atc_response(request.state, request.scenario, OverriddenBag,
                                  result.value.validation, request.env).value
        /\ DOMAIN result.value.slots = DOMAIN Parsed[request.text]
        /\ \A name \in DOMAIN result.value.slots :
               result.value.slots[name].value = Parsed[request.text][name].value

\* the caller gave a value the utterance overrides and an expectation that the
\* readback check reads
C29_Witness ==
    /\ Answered
    /\ ReadbackRan
    /\ \E name \in DOMAIN request.current_slots \cap DOMAIN result.value.slots :
           /\ request.current_slots[name] # result.value.slots[name].value
           /\ Expected(name) \in DOMAIN request.current_slots
           /\ Expected(name) \notin DOMAIN result.value.slots

(***************************************************************************)
(* C30: the node cache is transparent.  Whatever execute calls were made   *)
(* on the one GraphExecutor and however the graph was edited between them  *)
(* (params or type of a node changed, connections added, removed or taken  *)
(* from other ports), with nodes failing in one run and succeeding in a    *)
(* later one, the outputs an execute call returns are the outputs a fresh  *)
(* GraphExecutor with an empty cache returns for the same graph.           *)
(***************************************************************************)
\* what a GraphExecutor with an empty cache returns for the graph as it is
FreshRun == execute(graph, clear(cache), execution.stop_at_node, Readable)

C30_CacheTransparent ==
    (execution # NoExecution /\ execution.tag = "return") =>
        execution.outputs = FreshRun.outputs

====
